---- MODULE Spec2Model ----
(***************************************************************************)
(* downloadmagic: the in-process message broker (messaging/message.py),    *)
(* the download server (downloadmagic/server/server.py) and the download   *)
(* workers (downloadmagic/server/worker.py), as one state machine.         *)
(*                                                                         *)
(* Threads: the server thread, one thread per worker, and the client       *)
(* (the collaborator), which only publishes commands.  A step of a thread  *)
(* is one message taken from its queue and handled, one chunk of a         *)
(* transfer, or one return of the messages() generator.  A call a handler  *)
(* makes is part of the handler's step; _start_download, which loops, is   *)
(* a frame on the worker's call stack, so that a START handled during the  *)
(* update of a running transfer nests as it does in the code.  The return  *)
(* of received.wait() is one step with the first get_nowait() that follows *)
(* it, and leaving the loop of _start_download is one step with            *)
(* _finish_download: no other thread reads or writes anything in between   *)
(* but the tail of the queue.  A thread that finds its event set and its   *)
(* queue empty goes round its loop without changing anything.              *)
(*                                                                         *)
(* Sizes and offsets count chunks: one chunk is one unit of                *)
(* Content-Length.  The byte at offset k of a resource is the number k+1,  *)
(* a hole left by a write past the end of a file is 0.  The transfer       *)
(* speed is not modelled.                                                  *)
(*                                                                         *)
(* Workers and the server build Download from keyword arguments, filepath  *)
(* included (worker.py:112-120, server.py:146-154), while the dataclass    *)
(* of download.py:25-60 has filepath as a property and takes no such       *)
(* keyword.  SpecAsWritten is the server with the class as download.py     *)
(* declares it: the call raises TypeError.  Every other specification      *)
(* takes Download as the record its callers build, which is the program    *)
(* the rest of the code is written for.                                    *)
(***************************************************************************)
EXTENDS Integers, Sequences, FiniteSets, TLC

\* ---------------------------------------------------------------- bounds
\* CreateDownload messages the client publishes
MaxCreates == 2
\* DownloadOperation messages the client publishes
MaxOps == 3
\* largest Content-Length a probe answers
MaxSize == 3
\* messages published on a broker of arbitrary subscribers
MaxPublishes == 2
MaxFrames == 2
MaxClients == 2

\* ThreadSubscriber.__init__(input_size=10)
input_size == 10

VARIABLES
    subscribers,      \* DefaultMessageBroker.subscribers: list of mailboxes
    topics,           \* Subscriber.topics of each mailbox
    queue,            \* ThreadSubscriber.input_queue of each mailbox
    received,         \* ThreadSubscriber.received (the event) of each mailbox
    sent,             \* what the last step published: <<[msg, to]>>
    server,           \* the server thread: [pc]
    max_download_id,  \* DownloadServer._max_download_id
    downloads,        \* DownloadServer.downloads
    downloads_status, \* DownloadServer.downloads_status
    workers,          \* the workers, in the order they were constructed
    files,            \* the file system: path -> [exists, data]
    creates_sent,     \* CreateDownload messages the client has published
    ops_sent,         \* DownloadOperation messages the client has published
    budget,           \* what the client will do: [creates, ops, size]
    last,             \* the message the last step handled: [who, msg, status]
    bridge            \* the two socket brokers and the connection between them

vars == <<subscribers, topics, queue, received, sent, server, max_download_id,
          downloads, downloads_status, workers, files, creates_sent, ops_sent,
          budget, last, bridge>>

\* ------------------------------------------------------------ enumerations
\* DownloadStatus
UNSTARTED == "UNSTARTED"
IN_PROGRESS == "IN_PROGRESS"
PAUSED == "PAUSED"
COMPLETED == "COMPLETED"
CANCELED == "CANCELED"
ERROR == "ERROR"
DownloadStatus == {UNSTARTED, IN_PROGRESS, PAUSED, COMPLETED, CANCELED, ERROR}

\* DownloadOperation
START == "START"
PAUSE == "PAUSE"
CANCEL == "CANCEL"
DownloadOperation == {START, PAUSE, CANCEL}

\* The mailbox of the server is 0, the mailbox of the k-th worker is k.
ServerBox == 0
Mailboxes == 0..MaxCreates

\* What the client does in a run: it drives one download of MaxSize chunks
\* with up to MaxOps operations, or it creates up to MaxCreates downloads of
\* one chunk and publishes one operation.
OneDownload == [creates |-> 1, ops |-> MaxOps, size |-> MaxSize]
ManyDownloads == [creates |-> MaxCreates, ops |-> 1, size |-> 1]
TwoTransfers == [creates |-> MaxCreates, ops |-> 2, size |-> 1]
Budgets == {OneDownload, ManyDownloads}

Urls == {"http://h/a", "http://h/b"}
Directories == {"."}

\* ------------------------------------------------------------------ paths
\* os.path.abspath of the directory the client names
Abspath(dir) == IF dir = "." THEN "/cwd" ELSE dir

\* Download._get_filename_from_url: the basename of the url's path
FilenameFromUrl(url) == IF url = "http://h/a" THEN "a" ELSE "b"

\* os.path.join(download_directory, filename)
Join(dir, filename) == dir \o "/" \o filename

Paths == {Join(Abspath(d), FilenameFromUrl(u)) : d \in Directories, u \in Urls}

\* f"downloadworker{download_id}"
WorkerTopic(download_id) == "downloadworker" \o ToString(download_id)

\* ---------------------------------------------------------------- numbers
RECURSIVE Gcd(_, _)
Gcd(a, b) == IF b = 0 THEN a ELSE Gcd(b, a % b)

\* downloaded_bytes / size, as the fraction in lowest terms <<num, den>>
Divide(n, d) == LET g == Gcd(n, d) IN <<n \div g, d \div g>>

\* ---------------------------------------------------------------- messages
CreateDownloadMessage(url, dir) ==
    [topic |-> "downloadserver", action |-> "CreateDownload",
     url |-> url, download_directory |-> dir]

DownloadOperationMessage(topic, download_id, op) ==
    [topic |-> topic, action |-> "DownloadOperation",
     download_id |-> download_id, download_operation |-> op]

DownloadInfoMessage(d) ==
    [topic |-> "downloadserver", action |-> "DownloadInfo",
     download_id |-> d.download_id, url |-> d.url,
     download_directory |-> d.download_directory, size |-> d.size,
     filename |-> d.filename, filepath |-> d.filepath,
     is_pausable |-> d.is_pausable]

DownloadStatusMessage(download_id, status, downloaded_bytes, progress) ==
    [topic |-> "downloadserver", action |-> "DownloadStatus",
     download_id |-> download_id, status |-> status,
     downloaded_bytes |-> downloaded_bytes, progress |-> progress]

NoMessage == [topic |-> "", action |-> ""]
NoLast == [who |-> -1, msg |-> NoMessage, status |-> ""]

\* DefaultMessageBroker: one process, no socket broker
NoBridge == [link |-> "absent"]

\* A Download, as worker.py and server.py construct it.
Download(download_id, url, dir, size, filename, filepath, is_pausable) ==
    [download_id |-> download_id, url |-> url, download_directory |-> dir,
     size |-> size, filename |-> filename, filepath |-> filepath,
     is_pausable |-> is_pausable]

\* ----------------------------------------------------------------- state
\* What a handler reads and writes, passed from call to call.
State ==
    [subscribers |-> subscribers, topics |-> topics, queue |-> queue,
     received |-> received, sent |-> <<>>, max_download_id |-> max_download_id,
     downloads |-> downloads, downloads_status |-> downloads_status,
     workers |-> workers, files |-> files]

Apply(st) ==
    /\ subscribers' = st.subscribers
    /\ topics' = st.topics
    /\ queue' = st.queue
    /\ received' = st.received
    /\ sent' = st.sent
    /\ max_download_id' = st.max_download_id
    /\ downloads' = st.downloads
    /\ downloads_status' = st.downloads_status
    /\ workers' = st.workers
    /\ files' = st.files

\* dict[key] = value
Put(f, key, value) ==
    [k \in (DOMAIN f) \cup {key} |-> IF k = key THEN value ELSE f[k]]

\* --------------------------------------------------------------- the broker
\* receive_message were the queue a stack
receive_message_on_top(st, box, message) ==
    LET n == Len(st.sent)
        called == [st EXCEPT !.sent[n].to = Append(@, box)]
    IN  IF Len(st.queue[box]) >= input_size
        THEN called
        ELSE [called EXCEPT !.queue[box] = <<message>> \o @,
                            !.received[box] = TRUE]

\* receive_message were the queue to take one message more than input_size
receive_message_one_more(st, box, message) ==
    LET n == Len(st.sent)
        called == [st EXCEPT !.sent[n].to = Append(@, box)]
    IN  IF Len(st.queue[box]) > input_size
        THEN called
        ELSE [called EXCEPT !.queue[box] = Append(@, message),
                            !.received[box] = TRUE]

\* ThreadSubscriber.receive_message: put_nowait, and set the event unless the
\* queue was full.  The call is recorded in the publish being made.
receive_message(st, box, message) ==
    LET n == Len(st.sent)
        called == [st EXCEPT !.sent[n].to = Append(@, box)]
    IN  IF Len(st.queue[box]) >= input_size
        THEN called
        ELSE [called EXCEPT !.queue[box] = Append(@, message),
                            !.received[box] = TRUE]

RECURSIVE Fanout(_, _, _)
Fanout(st, message, i) ==
    IF i > Len(st.subscribers)
    THEN st
    ELSE LET subscriber == st.subscribers[i]
         IN  Fanout(IF message.topic \in st.topics[subscriber]
                    THEN receive_message(st, subscriber, message)
                    ELSE st,
                    message, i + 1)

\* send_message were it to pass over the first subscriber
send_message_from_second(st, message) ==
    Fanout([st EXCEPT !.sent = Append(@, [msg |-> message, to |-> <<>>])],
           message, 2)

\* DefaultMessageBroker.send_message
send_message(st, message) ==
    Fanout([st EXCEPT !.sent = Append(@, [msg |-> message, to |-> <<>>])],
           message, 1)

\* DefaultMessageBroker.subscribe
subscribe(st, box) == [st EXCEPT !.subscribers = Append(@, box)]

\* list.remove: the first occurrence goes
RECURSIVE Remove(_, _)
Remove(list, x) ==
    IF list = <<>>
    THEN list
    ELSE IF Head(list) = x
    THEN Tail(list)
    ELSE <<Head(list)>> \o Remove(Tail(list), x)

\* DefaultMessageBroker.unsubscribe
unsubscribe(st, box) == [st EXCEPT !.subscribers = Remove(@, box)]

\* ------------------------------------------------------------------- files
NoFile == [exists |-> FALSE, data |-> <<>>]
EmptyFile == [exists |-> TRUE, data |-> <<>>]

\* The bytes of a resource of the given size.
Content(size) == [k \in 1..size |-> k]

Holes(n) == [k \in 1..n |-> 0]

\* open(filepath, mode): "wb" truncates or creates, "ab" creates when missing
open(fs, path, mode) ==
    IF mode = "wb" \/ ~fs[path].exists
    THEN [fs EXCEPT ![path] = EmptyFile]
    ELSE fs

\* file.write(chunk) through the handle of a frame: "ab" writes at the end,
\* "wb" at the handle's position; a handle whose file was removed writes to
\* a file no path names.
write(fs, path, frame, byte) ==
    LET data == fs[path].data
    IN  IF frame.orphan
        THEN fs
        ELSE IF frame.mode = "ab"
        THEN [fs EXCEPT ![path].data = Append(data, byte)]
        ELSE IF frame.pos < Len(data)
        THEN [fs EXCEPT ![path].data[frame.pos + 1] = byte]
        ELSE [fs EXCEPT ![path].data =
                  data \o Holes(frame.pos - Len(data)) \o <<byte>>]

\* The open handles of the path lose their file.
Orphaned(ws, path) ==
    [i \in DOMAIN ws |->
        IF ws[i].download.filepath = path
        THEN [ws[i] EXCEPT !.stack =
                 [j \in DOMAIN ws[i].stack |->
                     IF ws[i].stack[j].kind = "download"
                     THEN [ws[i].stack[j] EXCEPT !.orphan = TRUE]
                     ELSE ws[i].stack[j]]]
        ELSE ws[i]]

\* ------------------------------------------------------------- call frames
\* A running messages() generator: at "get" before get_nowait, at "clear"
\* after queue.Empty and before received.clear().
MessagesFrame ==
    [kind |-> "messages", at |-> "get", message_received |-> FALSE,
     mode |-> "", pos |-> 0, off |-> 0, orphan |-> FALSE]

\* A running _start_download: at "loop" in the for loop, at "update" while
\* _update handles messages.  mode and pos are the open file's, off is the
\* offset of the next byte of the response.
DownloadFrame(mode, off) ==
    [kind |-> "download", at |-> "loop", message_received |-> FALSE,
     mode |-> mode, pos |-> 0, off |-> off, orphan |-> FALSE]

Top(worker) == worker.stack[Len(worker.stack)]
Pop(stack) == SubSeq(stack, 1, Len(stack) - 1)
InFrame(worker, kind, at) ==
    /\ worker.pc = "run"
    /\ worker.stack # <<>>
    /\ Top(worker).kind = kind
    /\ Top(worker).at = at

\* ------------------------------------------------------------- the worker
\* DownloadWorker.__init__, and Thread.start: the thread is at the top of run
DownloadWorker(download_id, url, download_directory) ==
    [download |-> Download(download_id, url, download_directory, 0, "", "", FALSE),
     downloaded_bytes |-> 0,
     status |-> UNSTARTED,
     should_finish |-> FALSE,
     pc |-> "init",
     stack |-> <<>>]

\* An uncaught exception ends the thread.
Raise(st, w) == [st EXCEPT !.workers[w].pc = "crashed", !.workers[w].stack = <<>>]

\* DownloadWorker._send_download_status
_send_download_status(st, w) ==
    LET me == st.workers[w]
    IN  send_message(st,
            DownloadStatusMessage(me.download.download_id, me.status,
                me.downloaded_bytes,
                Divide(me.downloaded_bytes, me.download.size)))

\* DownloadWorker._delete_file
_delete_file(st, w) ==
    LET path == st.workers[w].download.filepath
    IN  IF st.files[path].exists
        THEN [st EXCEPT !.files[path] = NoFile,
                        !.workers = Orphaned(@, path)]
        ELSE st

\* DownloadWorker._start_download, up to the for loop: the request, the open
\* file, the status.  connected is whether requests.get returns a response.
_start_download(st, w, connected) ==
    LET me == st.workers[w]
        resume == me.status = PAUSED
        mode == IF resume THEN "ab" ELSE "wb"
        off == IF resume THEN me.downloaded_bytes ELSE 0
    IN  IF ~connected
        THEN Raise(st, w)
        ELSE [st EXCEPT !.files = open(@, me.download.filepath, mode),
                        !.workers[w].status = IN_PROGRESS,
                        !.workers[w].stack = Append(@, DownloadFrame(mode, off))]

\* _start_operation were it to start from every status but IN_PROGRESS
_start_operation_retrying(st, w, connected) ==
    IF st.workers[w].status # IN_PROGRESS
    THEN _start_download([st EXCEPT !.workers[w].should_finish = FALSE], w, connected)
    ELSE st

\* DownloadWorker._start_operation
_start_operation(st, w, connected) ==
    IF st.workers[w].status \in {UNSTARTED, PAUSED}
    THEN _start_download([st EXCEPT !.workers[w].should_finish = FALSE], w, connected)
    ELSE st

\* DownloadWorker._cancel_operation
_cancel_operation(st, w) ==
    IF st.workers[w].status # COMPLETED
    THEN LET deleted == IF st.workers[w].status = PAUSED
                        THEN _delete_file(st, w)
                        ELSE st
         IN  _send_download_status(
                 [deleted EXCEPT !.workers[w].status = CANCELED], w)
    ELSE st

\* _pause_operation were it to ignore is_pausable
_pause_operation_any(st, w) ==
    IF st.workers[w].status = IN_PROGRESS
    THEN _send_download_status([st EXCEPT !.workers[w].status = PAUSED], w)
    ELSE st

\* DownloadWorker._pause_operation
_pause_operation(st, w) ==
    IF /\ st.workers[w].status = IN_PROGRESS
       /\ st.workers[w].download.is_pausable
    THEN _send_download_status([st EXCEPT !.workers[w].status = PAUSED], w)
    ELSE st

\* _process_message were its last branch an else: every operation that is
\* not START or CANCEL pauses
DownloadWorker_process_message_else(st, w, message, connected) ==
    IF message.action # "DownloadOperation"
    THEN st
    ELSE IF message.download_operation = START
    THEN _start_operation(st, w, connected)
    ELSE IF message.download_operation = CANCEL
    THEN _cancel_operation(st, w)
    ELSE _pause_operation(st, w)

\* DownloadWorker._process_message
DownloadWorker_process_message(st, w, message, connected) ==
    IF message.action # "DownloadOperation"
    THEN st
    ELSE IF message.download_operation = START
    THEN _start_operation(st, w, connected)
    ELSE IF message.download_operation = CANCEL
    THEN _cancel_operation(st, w)
    ELSE IF message.download_operation = PAUSE
    THEN _pause_operation(st, w)
    ELSE st

\* DownloadWorker._finish_download, and the return of _start_download
_finish_download(st, w) ==
    LET me == st.workers[w]
        finished ==
            IF me.status = CANCELED
            THEN _delete_file(st, w)
            ELSE IF me.status = PAUSED
            THEN st
            ELSE _send_download_status(
                     [st EXCEPT !.workers[w].status =
                         IF me.downloaded_bytes # me.download.size
                         THEN ERROR ELSE COMPLETED], w)
    IN  [finished EXCEPT !.workers[w].stack = Pop(@)]

\* Download.from_url: the HEAD request answered with Content-Length size
\* and Accept-Ranges present or not
from_url(download_id, url, download_directory, size, is_pausable) ==
    Download(download_id, url, Abspath(download_directory), size,
             FilenameFromUrl(url),
             Join(Abspath(download_directory), FilenameFromUrl(url)),
             is_pausable)

\* The resources behind the urls: the first accepts byte ranges, the
\* second does not.
Resource(url) ==
    [size |-> budget.size, is_pausable |-> (url = "http://h/a")]

\* What the HEAD request of from_url can come to: an exception, a
\* Content-Length of 0, or the headers of the resource.
Probes(url) ==
    {[ok |-> FALSE, size |-> 0, is_pausable |-> FALSE],
     [ok |-> TRUE, size |-> 0, is_pausable |-> Resource(url).is_pausable],
     [ok |-> TRUE, size |-> Resource(url).size,
      is_pausable |-> Resource(url).is_pausable]}

\* DownloadWorker._initialize_download; the division of
\* _send_download_status raises when the size is 0
_initialize_download(st, w, probe) ==
    LET me == st.workers[w]
        download == from_url(me.download.download_id, me.download.url,
                             me.download.download_directory, probe.size,
                             probe.is_pausable)
        resolved == [st EXCEPT !.workers[w].download = download]
        announced == send_message(resolved, DownloadInfoMessage(download))
    IN  IF ~probe.ok
        THEN Raise(st, w)
        ELSE IF probe.size = 0
        THEN Raise(announced, w)
        ELSE _send_download_status(announced, w)

\* DownloadWorker._update, up to _process_messsages
_update(st, w) ==
    LET me == st.workers[w]
        n == Len(me.stack)
    IN  IF me.downloaded_bytes = me.download.size
        THEN [st EXCEPT !.workers[w].should_finish = TRUE]
        ELSE [st EXCEPT !.workers[w].stack =
                 Append([@ EXCEPT ![n].at = "update"], MessagesFrame)]

\* DownloadWorker._update, after _process_messsages
_update_processed(st, w) ==
    IF st.workers[w].status \in {CANCELED, PAUSED}
    THEN [st EXCEPT !.workers[w].should_finish = TRUE]
    ELSE _send_download_status(st, w)

\* _start_download after _update has returned: the break on should_finish,
\* which leaves the loop for _finish_download, or the next turn of the loop
updated(st, w) ==
    LET n == Len(st.workers[w].stack)
    IN  IF st.workers[w].should_finish
        THEN _finish_download(st, w)
        ELSE [st EXCEPT !.workers[w].stack[n].at = "loop"]

\* DownloadWorker.run, after _process_messsages
run(st, w) ==
    [st EXCEPT !.workers[w].pc =
        IF st.workers[w].status \in {COMPLETED, CANCELED}
        THEN "done" ELSE "wait"]

\* The end of a messages() generator: the frame is gone and the caller goes
\* on, run or _update.
messages_return(st, w) ==
    LET popped == [st EXCEPT !.workers[w].stack = Pop(@)]
    IN  IF popped.workers[w].stack = <<>>
        THEN run(popped, w)
        ELSE updated(_update_processed(popped, w), w)

\* ------------------------------------------------------------- the server
\* _get_download_id were it to leave the counter alone
_get_download_id_again(st) ==
    [download_id |-> st.max_download_id, st |-> st]

\* DownloadServer._get_download_id
_get_download_id(st) ==
    [download_id |-> st.max_download_id,
     st |-> [st EXCEPT !.max_download_id = @ + 1]]

\* create_download were it to do nothing for a url of downloads
create_download_once(st, url, download_directory) ==
    LET got == _get_download_id(st)
        box == Len(st.workers) + 1
        worker == DownloadWorker(got.download_id, url, Abspath(download_directory))
    IN  IF \E id \in DOMAIN st.downloads : st.downloads[id].url = url
        THEN st
        ELSE subscribe([got.st EXCEPT !.workers = Append(@, worker),
                                      !.topics[box] = {WorkerTopic(got.download_id)}],
                       box)

\* DownloadServer.create_download; no url of Urls names youtube, so the
\* worker is a DownloadWorker
create_download(st, url, download_directory) ==
    LET got == _get_download_id(st)
        box == Len(st.workers) + 1
        worker == DownloadWorker(got.download_id, url, Abspath(download_directory))
    IN  subscribe([got.st EXCEPT !.workers = Append(@, worker),
                                 !.topics[box] = {WorkerTopic(got.download_id)}],
                  box)

\* DownloadServer._receive_create_download_message
_receive_create_download_message(st, message) ==
    create_download(st, message.url, message.download_directory)

\* _send_worker_message were the server to cancel a worker itself, by
\* setting the status of the worker's object
_send_worker_message_direct(st, download_id, download_operation) ==
    IF download_operation = CANCEL /\ download_id \in DOMAIN st.workers
    THEN [st EXCEPT !.workers[download_id].status = CANCELED]
    ELSE send_message(st, DownloadOperationMessage(WorkerTopic(download_id),
                                                   download_id, download_operation))

\* DownloadServer._send_worker_message
_send_worker_message(st, download_id, download_operation) ==
    send_message(st, DownloadOperationMessage(WorkerTopic(download_id),
                                              download_id, download_operation))

\* _receive_download_operation_message were PAUSE to call cancel_download
_receive_download_operation_message_cancelling(st, message) ==
    IF message.download_operation = START
    THEN _send_worker_message(st, message.download_id, START)
    ELSE IF message.download_operation \in {PAUSE, CANCEL}
    THEN _send_worker_message(st, message.download_id, CANCEL)
    ELSE st

\* DownloadServer._receive_download_operation_message
_receive_download_operation_message(st, message) ==
    IF message.download_operation \in {START, PAUSE, CANCEL}
    THEN _send_worker_message(st, message.download_id, message.download_operation)
    ELSE st

\* DownloadServer._receive_download_info_message
_receive_download_info_message(st, message) ==
    LET download == Download(message.download_id, message.url,
                             message.download_directory, message.size,
                             message.filename, message.filepath,
                             message.is_pausable)
        forwarded == [message EXCEPT !.topic = "downloadclient"]
    IN  send_message([st EXCEPT !.downloads = Put(@, message.download_id, download)],
                     forwarded)

\* _receive_download_status were it to take the status of any id
_receive_download_status_unasked(st, message) ==
    LET forwarded == [message EXCEPT !.topic = "downloadclient"]
    IN  send_message(
            [st EXCEPT !.downloads_status =
                Put(@, message.download_id, forwarded)],
            forwarded)

\* _receive_download_status were it to forget a download whose status is
\* COMPLETED, CANCELED or ERROR
_receive_download_status_forgetting(st, message) ==
    LET forwarded == [message EXCEPT !.topic = "downloadclient"]
        kept == (DOMAIN st.downloads) \ {message.download_id}
    IN  IF message.download_id \notin DOMAIN st.downloads
        THEN st
        ELSE IF message.status \in {COMPLETED, CANCELED, ERROR}
        THEN send_message(
                 [st EXCEPT !.downloads = [id \in kept |-> st.downloads[id]],
                            !.downloads_status =
                                [id \in kept \cap DOMAIN st.downloads_status |->
                                    st.downloads_status[id]]],
                 forwarded)
        ELSE send_message(
                 [st EXCEPT !.downloads_status =
                     Put(@, message.download_id, forwarded)],
                 forwarded)

\* _receive_download_status were it to keep the first snapshot of an id
\* (dict.setdefault)
_receive_download_status_keeping(st, message) ==
    LET forwarded == [message EXCEPT !.topic = "downloadclient"]
    IN  IF message.download_id \notin DOMAIN st.downloads
        THEN st
        ELSE send_message(
                 [st EXCEPT !.downloads_status =
                     IF message.download_id \in DOMAIN @
                     THEN @
                     ELSE Put(@, message.download_id, forwarded)],
                 forwarded)

\* DownloadServer._receive_download_status; the stored message is the
\* object whose topic is then rewritten
_receive_download_status(st, message) ==
    LET forwarded == [message EXCEPT !.topic = "downloadclient"]
    IN  IF message.download_id \notin DOMAIN st.downloads
        THEN st
        ELSE send_message(
                 [st EXCEPT !.downloads_status =
                     Put(@, message.download_id, forwarded)],
                 forwarded)

\* DownloadServer._process_message
DownloadServer_process_message(st, message) ==
    IF message.action = "CreateDownload"
    THEN _receive_create_download_message(st, message)
    ELSE IF message.action = "DownloadOperation"
    THEN _receive_download_operation_message(st, message)
    ELSE IF message.action = "DownloadInfo"
    THEN _receive_download_info_message(st, message)
    ELSE IF message.action = "DownloadStatus"
    THEN _receive_download_status(st, message)
    ELSE st

\* ------------------------------------------------------------------- Init
\* DownloadServer.__init__ on a new DefaultMessageBroker
Constructed ==
    /\ subscribers = <<ServerBox>>
    /\ topics = [b \in Mailboxes |-> IF b = ServerBox THEN {"downloadserver"} ELSE {}]
    /\ queue = [b \in Mailboxes |-> <<>>]
    /\ received = [b \in Mailboxes |-> FALSE]
    /\ sent = <<>>
    /\ server = [pc |-> "wait"]
    /\ max_download_id = 1
    /\ downloads = <<>>
    /\ downloads_status = <<>>
    /\ workers = <<>>
    /\ files = [p \in Paths |-> NoFile]
    /\ creates_sent = 0
    /\ ops_sent = 0
    /\ last = NoLast
    /\ bridge = NoBridge

Init == Constructed /\ budget \in Budgets

\* --------------------------------------------------------- client actions
\* DownloadClient.create_download: a CreateDownload published.  The client
\* leaves out the urls of its own list, which lags the downloads of the
\* server, so the url may be one the server tracks already.
ClientCreate ==
    /\ creates_sent < budget.creates
    /\ \E url \in Urls, dir \in Directories :
           Apply(send_message(State, CreateDownloadMessage(url, dir)))
    /\ creates_sent' = creates_sent + 1
    /\ last' = NoLast
    /\ UNCHANGED <<server, ops_sent, budget, bridge>>

\* DownloadClient.download_operation: a DownloadOperation published for a
\* download of the client's list, which holds the ids of the DownloadInfo
\* messages the server has forwarded
ClientOperation ==
    /\ ops_sent < budget.ops
    /\ \E id \in DOMAIN downloads, op \in DownloadOperation :
           Apply(send_message(State,
                     DownloadOperationMessage("downloadserver", id, op)))
    /\ ops_sent' = ops_sent + 1
    /\ last' = NoLast
    /\ UNCHANGED <<server, creates_sent, budget, bridge>>

\* --------------------------------------------------------- server actions
\* DownloadServer.run: received.wait() has returned or messages() is
\* running, messages() yields a message and _process_message handles it
ServerMessage ==
    /\ \/ server.pc = "wait" /\ received[ServerBox]
       \/ server.pc = "get"
    /\ queue[ServerBox] # <<>>
    /\ LET message == Head(queue[ServerBox])
           taken == [State EXCEPT !.queue[ServerBox] = Tail(@)]
       IN  /\ Apply(DownloadServer_process_message(taken, message))
           /\ last' = [who |-> ServerBox, msg |-> message, status |-> ""]
    /\ server' = [server EXCEPT !.pc = "get"]
    /\ UNCHANGED <<creates_sent, ops_sent, budget, bridge>>

\* get_nowait raises queue.Empty after a message was yielded
ServerEmpty ==
    /\ server.pc = "get"
    /\ queue[ServerBox] = <<>>
    /\ server' = [server EXCEPT !.pc = "clear"]
    /\ sent' = <<>>
    /\ last' = NoLast
    /\ UNCHANGED <<subscribers, topics, queue, received, max_download_id,
                   downloads, downloads_status, workers, files, creates_sent,
                   ops_sent, budget, bridge>>

\* received.clear(), and back to received.wait()
ServerClear ==
    /\ server.pc = "clear"
    /\ server' = [server EXCEPT !.pc = "wait"]
    /\ received' = [received EXCEPT ![ServerBox] = FALSE]
    /\ sent' = <<>>
    /\ last' = NoLast
    /\ UNCHANGED <<subscribers, topics, queue, max_download_id, downloads,
                   downloads_status, workers, files, creates_sent, ops_sent,
                   budget, bridge>>

\* --------------------------------------------------------- worker actions
WorkerStep(st) ==
    /\ Apply(st)
    /\ UNCHANGED <<server, creates_sent, ops_sent, budget, bridge>>

\* DownloadWorker.run: _initialize_download, then received.wait()
WorkerInit(w) ==
    /\ workers[w].pc = "init"
    /\ \E probe \in Probes(workers[w].download.url) :
           WorkerStep(_initialize_download(
               [State EXCEPT !.workers[w].pc = "wait"], w, probe))
    /\ last' = NoLast

\* received.wait() has returned and _process_messsages starts messages(),
\* or messages() is running; it yields a message and _process_message
\* handles it
WorkerMessage(w) ==
    /\ \/ workers[w].pc = "wait" /\ received[w]
       \/ InFrame(workers[w], "messages", "get")
    /\ queue[w] # <<>>
    /\ LET message == Head(queue[w])
           stack == IF workers[w].pc = "wait"
                    THEN <<MessagesFrame>> ELSE workers[w].stack
           n == Len(stack)
           taken == [State EXCEPT
                        !.queue[w] = Tail(@),
                        !.workers[w].pc = "run",
                        !.workers[w].stack =
                            [stack EXCEPT ![n].message_received = TRUE]]
       IN  /\ \E connected \in BOOLEAN :
                  WorkerStep(DownloadWorker_process_message(taken, w, message,
                                                            connected))
           /\ last' = [who |-> w, msg |-> message, status |-> workers[w].status]

\* get_nowait raises queue.Empty
WorkerEmpty(w) ==
    /\ InFrame(workers[w], "messages", "get")
    /\ queue[w] = <<>>
    /\ LET n == Len(workers[w].stack)
       IN  IF workers[w].stack[n].message_received
           THEN WorkerStep([State EXCEPT !.workers[w].stack[n].at = "clear"])
           ELSE WorkerStep(messages_return(State, w))
    /\ last' = NoLast

\* received.clear(), and the generator returns
WorkerClear(w) ==
    /\ InFrame(workers[w], "messages", "clear")
    /\ WorkerStep(messages_return([State EXCEPT !.received[w] = FALSE], w))
    /\ last' = NoLast

\* One turn of the for loop of _start_download: a chunk is written and
\* counted; elapsed is whether the timer has reached UPDATE_INTERVAL
WorkerChunk(w) ==
    /\ InFrame(workers[w], "download", "loop")
    /\ Top(workers[w]).off < workers[w].download.size
    /\ LET me == workers[w]
           n == Len(me.stack)
           frame == me.stack[n]
           written ==
               [State EXCEPT
                   !.files = write(@, me.download.filepath, frame, frame.off + 1),
                   !.workers[w].downloaded_bytes = @ + 1,
                   !.workers[w].stack[n] =
                       [frame EXCEPT !.pos = @ + 1, !.off = @ + 1]]
       IN  \E elapsed \in BOOLEAN :
               WorkerStep(
                   IF ~elapsed
                   THEN written
                   ELSE IF written.workers[w].downloaded_bytes = me.download.size
                   THEN updated(_update(written, w), w)
                   ELSE _update(written, w))
    /\ last' = NoLast

\* iter_content ends: the response is exhausted, or it was cut short; the
\* file is closed, _finish_download runs, _start_download returns
WorkerStreamEnd(w) ==
    /\ InFrame(workers[w], "download", "loop")
    /\ WorkerStep(_finish_download(State, w))
    /\ last' = NoLast

\* iter_content raises: the connection broke
WorkerStreamError(w) ==
    /\ InFrame(workers[w], "download", "loop")
    /\ WorkerStep(Raise(State, w))
    /\ last' = NoLast

Next ==
    \/ ClientCreate
    \/ ClientOperation
    \/ ServerMessage
    \/ ServerEmpty
    \/ ServerClear
    \/ \E w \in 1..Len(workers) : WorkerInit(w)
    \/ \E w \in 1..Len(workers) : WorkerMessage(w)
    \/ \E w \in 1..Len(workers) : WorkerEmpty(w)
    \/ \E w \in 1..Len(workers) : WorkerClear(w)
    \/ \E w \in 1..Len(workers) : WorkerChunk(w)
    \/ \E w \in 1..Len(workers) : WorkerStreamEnd(w)
    \/ \E w \in 1..Len(workers) : WorkerStreamError(w)

Spec == Init /\ [][Next]_vars

\* The runs of one download, and the runs of several.
InitWorker == Init /\ budget = OneDownload
SpecWorker == InitWorker /\ [][Next]_vars

InitRegistry == Init /\ budget = ManyDownloads
SpecRegistry == InitRegistry /\ [][Next]_vars

\* Two downloads and two operations: both workers can be started.
InitPair == Constructed /\ budget = TwoTransfers
SpecPair == InitPair /\ [][Next]_vars

\* ------------------------------------------------------- one download, run
\* One download whose probe succeeds and whose response delivers exactly
\* size bytes; the client publishes START only.  No request fails: no
\* thread ends on an exception and no transfer ends short.
Scenario ==
    /\ \A w \in DOMAIN workers :
           workers[w].pc # "crashed" /\ workers[w].status # ERROR
    /\ \A i \in DOMAIN sent :
           sent[i].msg.action = "DownloadOperation"
               => sent[i].msg.download_operation = START

InitScenario == Init /\ budget = OneDownload

\* The thread of the server: DownloadServer.run
ScenarioServer ==
    /\ ServerMessage \/ ServerEmpty \/ ServerClear
    /\ Scenario'

\* The thread of a worker: DownloadWorker.run
ScenarioWorker(w) ==
    /\ w \in DOMAIN workers
    /\ \/ WorkerInit(w)
       \/ WorkerMessage(w)
       \/ WorkerEmpty(w)
       \/ WorkerClear(w)
       \/ WorkerChunk(w)
       \/ WorkerStreamEnd(w)
    /\ Scenario'

ScenarioClient ==
    /\ ClientCreate \/ ClientOperation
    /\ Scenario'

NextScenario ==
    \/ ScenarioClient
    \/ ScenarioServer
    \/ \E w \in 1..Len(workers) : ScenarioWorker(w)

\* The server and each worker are threads of their own, and a thread that
\* can run does run; the client publishes when its user asks.
SpecScenario ==
    /\ InitScenario
    /\ [][NextScenario]_vars
    /\ WF_vars(ScenarioServer)
    /\ \A w \in 1..OneDownload.creates : WF_vars(ScenarioWorker(w))

\* The same download of one chunk, with a client that publishes START
\* again and again: more messages than the mailbox of the server holds.
Flood == [creates |-> 1, ops |-> input_size + 1, size |-> 1]
InitFlood == Constructed /\ budget = Flood
SpecFlood ==
    /\ InitFlood
    /\ [][NextScenario]_vars
    /\ WF_vars(ScenarioServer)
    /\ \A w \in 1..Flood.creates : WF_vars(ScenarioWorker(w))

\* -------------------------------------------------- operations of a peer
\* _check_server_for_messages: a DownloadOperation of the connection is
\* published on the broker of the server; the id is any id, that of a
\* download or not
PeerOperation ==
    /\ ops_sent < budget.ops
    /\ \E id \in 1..MaxCreates, op \in DownloadOperation :
           Apply(send_message(State,
                     DownloadOperationMessage("downloadserver", id, op)))
    /\ ops_sent' = ops_sent + 1
    /\ last' = NoLast
    /\ UNCHANGED <<server, creates_sent, budget, bridge>>

NextPeer ==
    \/ ClientCreate
    \/ PeerOperation
    \/ ServerMessage
    \/ ServerEmpty
    \/ ServerClear
    \/ \E w \in 1..Len(workers) : WorkerInit(w)
    \/ \E w \in 1..Len(workers) : WorkerMessage(w)
    \/ \E w \in 1..Len(workers) : WorkerEmpty(w)
    \/ \E w \in 1..Len(workers) : WorkerClear(w)
    \/ \E w \in 1..Len(workers) : WorkerChunk(w)
    \/ \E w \in 1..Len(workers) : WorkerStreamEnd(w)
    \/ \E w \in 1..Len(workers) : WorkerStreamError(w)

SpecPeer == InitRegistry /\ [][NextPeer]_vars

\* ------------------------------------------- the server as it is written
\* The fields of the dataclass Download, which are the keywords of the
\* __init__ it generates; filepath is a property
Download_fields ==
    {"download_id", "url", "size", "download_directory", "filename",
     "is_pausable"}

\* The keywords of the call in _get_placeholder_download
PlaceholderKeywords ==
    {"download_id", "url", "download_directory", "size", "filename",
     "filepath", "is_pausable"}

\* The keywords of the call in _receive_download_info_message
InfoKeywords ==
    {"download_id", "url", "download_directory", "size", "filename",
     "filepath", "is_pausable"}

\* Download(**keywords) raises TypeError for a keyword that is no field
TypeError(keywords) == ~(keywords \subseteq Download_fields)

\* The handler of the message calls Download(...) and the call raises.
Raises(message) ==
    \/ message.action = "CreateDownload" /\ TypeError(PlaceholderKeywords)
    \/ message.action = "DownloadInfo" /\ TypeError(InfoKeywords)

\* What the handler has done when the call raises: create_download has
\* taken an id, _receive_download_info_message nothing
Interrupted(st, message) ==
    IF message.action = "CreateDownload" THEN _get_download_id(st).st ELSE st

\* What a peer of the socket broker can send to the server: the messages of
\* a client and those of a worker
PeerMessages ==
    {DownloadOperationMessage("downloadserver", id, op) :
         id \in 1..MaxCreates, op \in DownloadOperation}
    \cup {DownloadInfoMessage(from_url(1, url, ".", 1, TRUE)) : url \in Urls}
    \cup {DownloadStatusMessage(1, UNSTARTED, 0, <<0, 1>>)}

\* _check_server_for_messages: a message of the connection is published on
\* the broker of the server
PeerPublish ==
    /\ ops_sent < budget.ops
    /\ \E message \in PeerMessages : Apply(send_message(State, message))
    /\ ops_sent' = ops_sent + 1
    /\ last' = NoLast
    /\ UNCHANGED <<server, creates_sent, budget, bridge>>

\* DownloadServer.run: messages() yields a message and _process_message
\* handles it; an exception of the handler ends the thread
ServerMessageAsWritten ==
    /\ \/ server.pc = "wait" /\ received[ServerBox]
       \/ server.pc = "get"
    /\ queue[ServerBox] # <<>>
    /\ LET message == Head(queue[ServerBox])
           taken == [State EXCEPT !.queue[ServerBox] = Tail(@)]
       IN  /\ IF Raises(message)
              THEN /\ Apply(Interrupted(taken, message))
                   /\ server' = [server EXCEPT !.pc = "crashed"]
              ELSE /\ Apply(DownloadServer_process_message(taken, message))
                   /\ server' = [server EXCEPT !.pc = "get"]
           /\ last' = [who |-> ServerBox, msg |-> message, status |-> ""]
    /\ UNCHANGED <<creates_sent, ops_sent, budget, bridge>>

InitAsWritten == Constructed /\ budget = OneDownload

NextAsWritten ==
    \/ ClientCreate
    \/ PeerPublish
    \/ ServerMessageAsWritten
    \/ ServerEmpty
    \/ ServerClear

SpecAsWritten == InitAsWritten /\ [][NextAsWritten]_vars

\* One download of one chunk, and a peer of the socket broker that sends the
\* server two messages of its own, those of a worker among them.
Relayed == [creates |-> 1, ops |-> 2, size |-> 1]
InitRelayed == Constructed /\ budget = Relayed

NextRelayed ==
    \/ ClientCreate
    \/ PeerPublish
    \/ ServerMessage
    \/ ServerEmpty
    \/ ServerClear
    \/ \E w \in 1..Len(workers) : WorkerInit(w)
    \/ \E w \in 1..Len(workers) : WorkerMessage(w)
    \/ \E w \in 1..Len(workers) : WorkerEmpty(w)
    \/ \E w \in 1..Len(workers) : WorkerClear(w)
    \/ \E w \in 1..Len(workers) : WorkerChunk(w)
    \/ \E w \in 1..Len(workers) : WorkerStreamEnd(w)
    \/ \E w \in 1..Len(workers) : WorkerStreamError(w)

SpecRelayed == InitRelayed /\ [][NextRelayed]_vars

\* One download of two chunks, and a peer of the socket broker that sends
\* messages no handler has a branch for: an action nobody knows and an
\* operation that is none of DownloadOperation, for the server and for the
\* first worker.
Strange == [creates |-> 1, ops |-> 2, size |-> 2]

StrangeMessages ==
    {[topic |-> topic, action |-> "Hello"] :
         topic \in {"downloadserver", WorkerTopic(1)}}
    \cup {DownloadOperationMessage(topic, 1, "RESUME") :
              topic \in {"downloadserver", WorkerTopic(1)}}

\* _check_server_for_messages: such a message of the connection is
\* published on the broker of the server
PeerStrange ==
    /\ ops_sent < budget.ops
    /\ \E message \in StrangeMessages : Apply(send_message(State, message))
    /\ ops_sent' = ops_sent + 1
    /\ last' = NoLast
    /\ UNCHANGED <<server, creates_sent, budget, bridge>>

InitStrange == Constructed /\ budget = Strange

NextStrange ==
    \/ ClientCreate
    \/ ClientOperation
    \/ PeerStrange
    \/ ServerMessage
    \/ ServerEmpty
    \/ ServerClear
    \/ \E w \in 1..Len(workers) : WorkerInit(w)
    \/ \E w \in 1..Len(workers) : WorkerMessage(w)
    \/ \E w \in 1..Len(workers) : WorkerEmpty(w)
    \/ \E w \in 1..Len(workers) : WorkerClear(w)
    \/ \E w \in 1..Len(workers) : WorkerChunk(w)
    \/ \E w \in 1..Len(workers) : WorkerStreamEnd(w)
    \/ \E w \in 1..Len(workers) : WorkerStreamError(w)

SpecStrange == InitStrange /\ [][NextStrange]_vars

\* ------------------------------------------------- the worker of a video
\* A url create_download gives to a YoutubeDownloadWorker
YoutubeUrl == "http://youtube.com/v"

\* create_download: "youtube.com" in url or "youtu.be" in url
IsYoutube(url) == url = YoutubeUrl

\* What get_youtube_video_info can come to: extract_info raises, or the
\* title, the extension and the size of the video
VideoInfos ==
    {[ok |-> FALSE, title |-> "", extension |-> "", filesize |-> 0],
     [ok |-> TRUE, title |-> "v", extension |-> "webm", filesize |-> budget.size]}

\* YoutubeDownloadWorker._initialize_download
YoutubeDownloadWorker_initialize_download(st, w, video_info) ==
    LET me == st.workers[w]
        filepath == Join(me.download.download_directory,
                         video_info.title \o "." \o video_info.extension \o ".part")
        download == Download(me.download.download_id, me.download.url,
                             me.download.download_directory, video_info.filesize,
                             video_info.title \o ".mp3", filepath, TRUE)
        resolved == [st EXCEPT !.workers[w].download = download]
        announced == send_message(resolved, DownloadInfoMessage(download))
    IN  IF ~video_info.ok
        THEN Raise(st, w)
        ELSE _send_download_status(announced, w)

\* The parameters of download_youtube_mp3, none with a default
download_youtube_mp3_parameters == <<"youtube_url", "download_directory", "hook">>

\* The arguments of the call in YoutubeDownloadWorker._start_download
download_youtube_mp3_arguments == <<"self.download.url", "self._progress_hook">>

\* A call with fewer positional arguments than parameters without a
\* default raises TypeError before the body of the function runs.
MissingArgument(arguments, parameters) == Len(arguments) < Len(parameters)

\* download_youtube_mp3 is running: YoutubeDL.download, which calls the hook
PipelineFrame ==
    [kind |-> "pipeline", at |-> "download", message_received |-> FALSE,
     mode |-> "", pos |-> 0, off |-> 0, orphan |-> FALSE]

\* YoutubeDownloadWorker._start_download, up to the call of
\* download_youtube_mp3; the except clause is for ValueError, a TypeError
\* leaves _start_download and run
YoutubeDownloadWorker_start_download(st, w) ==
    LET started == [st EXCEPT !.workers[w].status = IN_PROGRESS]
    IN  IF MissingArgument(download_youtube_mp3_arguments,
                           download_youtube_mp3_parameters)
        THEN Raise(started, w)
        ELSE [started EXCEPT !.workers[w].stack = Append(@, PipelineFrame)]

\* DownloadWorker._start_operation of a YoutubeDownloadWorker
YoutubeDownloadWorker_start_operation(st, w) ==
    IF st.workers[w].status \in {UNSTARTED, PAUSED}
    THEN YoutubeDownloadWorker_start_download(
             [st EXCEPT !.workers[w].should_finish = FALSE], w)
    ELSE st

\* DownloadWorker._process_message of a YoutubeDownloadWorker
YoutubeDownloadWorker_process_message(st, w, message) ==
    IF message.action # "DownloadOperation"
    THEN st
    ELSE IF message.download_operation = START
    THEN YoutubeDownloadWorker_start_operation(st, w)
    ELSE IF message.download_operation = CANCEL
    THEN _cancel_operation(st, w)
    ELSE IF message.download_operation = PAUSE
    THEN _pause_operation(st, w)
    ELSE st

\* DownloadClient.create_download with the url of a video
YoutubeCreate ==
    /\ creates_sent < budget.creates
    /\ \E dir \in Directories :
           Apply(send_message(State, CreateDownloadMessage(YoutubeUrl, dir)))
    /\ creates_sent' = creates_sent + 1
    /\ last' = NoLast
    /\ UNCHANGED <<server, ops_sent, budget, bridge>>

\* DownloadWorker.run of a YoutubeDownloadWorker: _initialize_download, then
\* received.wait()
YoutubeInit(w) ==
    /\ workers[w].pc = "init"
    /\ IsYoutube(workers[w].download.url)
    /\ \E video_info \in VideoInfos :
           WorkerStep(YoutubeDownloadWorker_initialize_download(
               [State EXCEPT !.workers[w].pc = "wait"], w, video_info))
    /\ last' = NoLast

\* messages() of a YoutubeDownloadWorker yields a message and
\* _process_message handles it
YoutubeMessage(w) ==
    /\ IsYoutube(workers[w].download.url)
    /\ \/ workers[w].pc = "wait" /\ received[w]
       \/ InFrame(workers[w], "messages", "get")
    /\ queue[w] # <<>>
    /\ LET message == Head(queue[w])
           stack == IF workers[w].pc = "wait"
                    THEN <<MessagesFrame>> ELSE workers[w].stack
           n == Len(stack)
           taken == [State EXCEPT
                        !.queue[w] = Tail(@),
                        !.workers[w].pc = "run",
                        !.workers[w].stack =
                            [stack EXCEPT ![n].message_received = TRUE]]
       IN  /\ WorkerStep(YoutubeDownloadWorker_process_message(taken, w, message))
           /\ last' = [who |-> w, msg |-> message, status |-> workers[w].status]

NextYoutube ==
    \/ YoutubeCreate
    \/ ClientOperation
    \/ ServerMessage
    \/ ServerEmpty
    \/ ServerClear
    \/ \E w \in 1..Len(workers) : YoutubeInit(w)
    \/ \E w \in 1..Len(workers) : YoutubeMessage(w)
    \/ \E w \in 1..Len(workers) : WorkerEmpty(w)
    \/ \E w \in 1..Len(workers) : WorkerClear(w)

InitYoutube == Constructed /\ budget = OneDownload
SpecYoutube == InitYoutube /\ [][NextYoutube]_vars

\* ------------------------------------------------- the broker on its own
\* A broker whose mailboxes are subscribed and unsubscribed in any order,
\* with any topics, while messages are published on it.
BusTopics == {"downloadserver", "downloadclient"}

\* Who listens to what: every mailbox to both topics, or the mailboxes in
\* turn to the first, to both and to the second.
BusPlans ==
    {[b \in Mailboxes |-> BusTopics],
     [b \in Mailboxes |-> IF b % 3 = 0 THEN {"downloadserver"}
                          ELSE IF b % 3 = 1 THEN BusTopics
                          ELSE {"downloadclient"}]}

InitBus ==
    /\ subscribers = <<>>
    /\ topics \in BusPlans
    /\ queue = [b \in Mailboxes |-> <<>>]
    /\ received = [b \in Mailboxes |-> FALSE]
    /\ sent = <<>>
    /\ server = [pc |-> "wait"]
    /\ max_download_id = 1
    /\ downloads = <<>>
    /\ downloads_status = <<>>
    /\ workers = <<>>
    /\ files = [p \in Paths |-> NoFile]
    /\ creates_sent = 0
    /\ ops_sent = 0
    /\ budget = [creates |-> 0, ops |-> MaxPublishes, size |-> 0]
    /\ last = NoLast
    /\ bridge = NoBridge

BusStep(st) ==
    /\ Apply(st)
    /\ last' = NoLast
    /\ UNCHANGED <<server, creates_sent, budget, bridge>>

\* broker.subscribe(subscriber), by the constructor of the mailbox's owner
BusSubscribe(box) ==
    /\ \A i \in DOMAIN subscribers : subscribers[i] # box
    /\ BusStep(subscribe(State, box))
    /\ UNCHANGED ops_sent

\* broker.unsubscribe(subscriber)
BusUnsubscribe(box) ==
    /\ \E i \in DOMAIN subscribers : subscribers[i] = box
    /\ BusStep(unsubscribe(State, box))
    /\ UNCHANGED ops_sent

\* broker.send_message(message)
BusPublish(topic) ==
    /\ ops_sent < budget.ops
    /\ \E op \in {START} :
           BusStep(send_message(State, DownloadOperationMessage(topic, 1, op)))
    /\ ops_sent' = ops_sent + 1

\* ThreadSubscriber.messages, run to its end by the owner of the mailbox
BusMessages(box) ==
    /\ received[box]
    /\ BusStep([State EXCEPT !.queue[box] = <<>>, !.received[box] = FALSE])
    /\ UNCHANGED ops_sent

NextBus ==
    \/ \E box \in Mailboxes : BusSubscribe(box)
    \/ \E box \in Mailboxes : BusUnsubscribe(box)
    \/ \E topic \in BusTopics : BusPublish(topic)
    \/ \E box \in Mailboxes : BusMessages(box)

SpecBus == InitBus /\ [][NextBus]_vars

\* ------------------------------------------------ a mailbox and its owner
\* Two mailboxes on a broker: the first to subscribe listens to one topic and
\* is never drained, the second listens to two and is drained by its owner,
\* message by message.  Messages are published without end.
MailboxMessages ==
    {DownloadOperationMessage("downloadserver", 1, START),
     DownloadOperationMessage("downloadclient", 1, CANCEL)}

MailboxStart(listened) ==
    /\ subscribers = <<1, ServerBox>>
    /\ topics = [b \in Mailboxes |->
                    IF b = ServerBox THEN listened
                    ELSE IF b = 1 THEN {"downloadserver"}
                    ELSE {}]
    /\ queue = [b \in Mailboxes |-> <<>>]
    /\ received = [b \in Mailboxes |-> FALSE]
    /\ sent = <<>>
    /\ server = [pc |-> "wait"]
    /\ max_download_id = 1
    /\ downloads = <<>>
    /\ downloads_status = <<>>
    /\ workers = <<>>
    /\ files = [p \in Paths |-> NoFile]
    /\ creates_sent = 0
    /\ ops_sent = 0
    /\ budget = [creates |-> 0, ops |-> 0, size |-> 0]
    /\ last = NoLast
    /\ bridge = NoBridge

InitMailbox == MailboxStart({"downloadserver", "downloadclient"})

\* Both mailboxes listen to one topic; the other topic has no listener.
InitPublish == MailboxStart({"downloadserver"})

\* send_message were put_nowait a put that waits for room in the queue
MailboxSend_waiting(message) ==
    /\ \A i \in DOMAIN subscribers :
           message.topic \in topics[subscribers[i]]
               => Len(queue[subscribers[i]]) < input_size
    /\ Apply(send_message(State, message))
    /\ last' = NoLast
    /\ UNCHANGED <<server, creates_sent, ops_sent, budget, bridge>>

\* broker.send_message(message), by any thread
MailboxSend(message) ==
    /\ Apply(send_message(State, message))
    /\ last' = NoLast
    /\ UNCHANGED <<server, creates_sent, ops_sent, budget, bridge>>

MailboxPublish == \E message \in MailboxMessages : MailboxSend(message)

\* ThreadSubscriber.messages: received.wait() has returned or the generator
\* is running, and get_nowait yields a message to the owner
MailboxTake ==
    /\ \/ server.pc = "wait" /\ received[ServerBox]
       \/ server.pc = "get"
    /\ queue[ServerBox] # <<>>
    /\ Apply([State EXCEPT !.queue[ServerBox] = Tail(@)])
    /\ last' = [who |-> ServerBox, msg |-> Head(queue[ServerBox]), status |-> ""]
    /\ server' = [server EXCEPT !.pc = "get"]
    /\ UNCHANGED <<creates_sent, ops_sent, budget, bridge>>

NextMailbox ==
    \/ MailboxPublish
    \/ MailboxTake
    \/ ServerEmpty
    \/ ServerClear

SpecMailbox == InitMailbox /\ [][NextMailbox]_vars

SpecPublish == InitPublish /\ [][NextMailbox]_vars

\* ------------------------------------------ receive_message, in two steps
\* The server and the workers it starts, up to the first snapshot of each.
\* A worker publishes its DownloadInfo and its first DownloadStatus from its
\* own thread, and receive_message is two statements, put_nowait and
\* received.set(): the thread of the server runs between them.  A worker is
\* at "info" or "status" between the two statements, at "informed" between
\* the two messages.
Signals == [creates |-> MaxCreates, ops |-> 0, size |-> 1]
InitSignal == Constructed /\ budget = Signals

\* The message send_message is called with: _initialize_download up to the
\* first send_message, and then _send_download_status
Announcement(worker) ==
    LET download == from_url(worker.download.download_id, worker.download.url,
                             worker.download.download_directory,
                             Resource(worker.download.url).size,
                             Resource(worker.download.url).is_pausable)
    IN  IF worker.pc = "init"
        THEN DownloadInfoMessage(download)
        ELSE DownloadStatusMessage(worker.download.download_id, worker.status,
                 worker.downloaded_bytes,
                 Divide(worker.downloaded_bytes, worker.download.size))

\* receive_message of the mailbox of the server, called by the thread of
\* worker w: put_nowait; on queue.Full the call returns
receive_message_put(w) ==
    /\ workers[w].pc \in {"init", "informed"}
    /\ LET message == Announcement(workers[w])
           full == Len(queue[ServerBox]) >= input_size
           download == IF workers[w].pc = "init"
                       THEN Download(message.download_id, message.url,
                                message.download_directory, message.size,
                                message.filename, message.filepath,
                                message.is_pausable)
                       ELSE workers[w].download
       IN  /\ queue' = IF full THEN queue
                       ELSE [queue EXCEPT ![ServerBox] = Append(@, message)]
           /\ workers' = [workers EXCEPT
                  ![w].download = download,
                  ![w].pc = IF workers[w].pc = "init"
                            THEN IF full THEN "informed" ELSE "info"
                            ELSE IF full THEN "wait" ELSE "status"]
           /\ sent' = <<[msg |-> message, to |-> <<ServerBox>>]>>
    /\ last' = NoLast
    /\ UNCHANGED <<subscribers, topics, received, server, max_download_id,
                   downloads, downloads_status, files, creates_sent, ops_sent,
                   budget, bridge>>

\* receive_message, called by the thread of worker w: received.set()
receive_message_set(w) ==
    /\ workers[w].pc \in {"info", "status"}
    /\ received' = [received EXCEPT ![ServerBox] = TRUE]
    /\ workers' = [workers EXCEPT
           ![w].pc = IF workers[w].pc = "info" THEN "informed" ELSE "wait"]
    /\ sent' = <<>>
    /\ last' = NoLast
    /\ UNCHANGED <<subscribers, topics, queue, server, max_download_id,
                   downloads, downloads_status, files, creates_sent, ops_sent,
                   budget, bridge>>

\* DownloadServer.run: received.wait() returns, get_nowait of messages()
\* raises queue.Empty at once, message_received is False and the event
\* stays set; the thread is at received.wait() again
ServerNothing ==
    /\ server.pc = "wait"
    /\ received[ServerBox]
    /\ queue[ServerBox] = <<>>
    /\ sent' = <<>>
    /\ last' = [who |-> ServerBox, msg |-> NoMessage, status |-> "Empty"]
    /\ UNCHANGED <<subscribers, topics, queue, received, server,
                   max_download_id, downloads, downloads_status, workers,
                   files, creates_sent, ops_sent, budget, bridge>>

NextSignal ==
    \/ ClientCreate
    \/ ServerMessage
    \/ ServerEmpty
    \/ ServerClear
    \/ ServerNothing
    \/ \E w \in 1..Len(workers) : receive_message_put(w)
    \/ \E w \in 1..Len(workers) : receive_message_set(w)

SpecSignal == InitSignal /\ [][NextSignal]_vars

\* ------------------------------------------------------ the socket brokers
\* Two processes: the server's, with a SocketServerMessageBroker, and the
\* client's, with a SocketClientMessageBroker, and one websocket between
\* them.  bridge.ends[side] is the broker of a side and its websocket
\* thread, bridge.wire[side] the frames on their way to the side,
\* bridge.link the connection, bridge.client the number of the client
\* process that is running.
Sides == {"server", "client"}

Peer(side) == IF side = "server" THEN "client" ELSE "server"

\* The topic send_message hands to the websocket, were it the same topic on
\* both sides
FarTopic_shared(side) == "downloadserver"

\* The topic send_message hands to the websocket
FarTopic(side) == IF side = "server" THEN "downloadclient" ELSE "downloadserver"

\* The subscribers of a side's broker: the mailbox of the DownloadServer,
\* the mailbox of the DownloadClient
LocalSubscribers(side) == <<side>>

LocalTopics(box) == IF box = "server" THEN {"downloadserver"} ELSE {"downloadclient"}

\* The types of the values of a message, as JSON knows them
JsonType(key) ==
    IF key \in {"download_id", "size", "downloaded_bytes", "progress", "speed"}
    THEN "number"
    ELSE IF key = "is_pausable" THEN "boolean" ELSE "string"

\* json.dumps(message): an object, each member a name with a typed value
json_dumps(message) ==
    [key \in DOMAIN message |->
        [type |-> JsonType(key), value |-> message[key]]]

\* json.loads(m): a dict, str for a string, int or float for a number, bool
\* for true and false
json_loads(m) == [key \in DOMAIN m |-> m[key].value]

\* A status the server has forwarded to the client, an operation of the
\* client for the server
BridgeMessages ==
    {[DownloadStatusMessage(1, IN_PROGRESS, 1, Divide(1, 3))
          EXCEPT !.topic = "downloadclient"],
     DownloadOperationMessage("downloadserver", 1, START)}

NoPublication == [msg |-> NoMessage, to |-> <<>>, from |-> ""]

\* A broker and its websocket thread as constructed
End ==
    [input_queue |-> <<>>, output_queue |-> <<>>, sent |-> FALSE,
     pc |-> "wait", message_received |-> FALSE,
     published |-> NoPublication]

\* _send_message_to_websocket: put_nowait on queue.Queue(), which has no
\* bound, so that queue.Full is never raised
_send_message_to_websocket(b, side, message) ==
    [b EXCEPT !.ends[side].input_queue = Append(@, json_dumps(message))]

\* send_message were it to hand every message to the websocket
Bridge_send_message_all(b, side, message, from) ==
    LET queued == _send_message_to_websocket(b, side, message)
    IN  [queued EXCEPT !.ends[side].published =
            [msg |-> message,
             to |-> SelectSeq(LocalSubscribers(side),
                        LAMBDA box : message.topic \in LocalTopics(box)),
             from |-> from]]

\* SocketServerMessageBroker.send_message,
\* SocketClientMessageBroker.send_message; from is the caller, a thread of
\* the process ("local") or _check_server_for_messages ("websocket")
Bridge_send_message(b, side, message, from) ==
    LET queued == IF message.topic = FarTopic(side)
                  THEN _send_message_to_websocket(b, side, message)
                  ELSE b
    IN  [queued EXCEPT !.ends[side].published =
            [msg |-> message,
             to |-> SelectSeq(LocalSubscribers(side),
                        LAMBDA box : message.topic \in LocalTopics(box)),
             from |-> from]]

\* What a step that publishes nothing leaves of the last publications
Quiet(b) ==
    [b EXCEPT !.ends = [side \in Sides |->
                           [b.ends[side] EXCEPT !.published = NoPublication]]]

BridgeRest ==
    UNCHANGED <<subscribers, topics, queue, received, sent, server,
                max_download_id, downloads, downloads_status, workers, files,
                creates_sent, budget, last>>

\* SocketServerMessageBroker.__init__, SocketClientMessageBroker.__init__:
\* the server listens, the client has not connected yet; the processes will
\* publish so many messages
BridgeStart(publishes) ==
    /\ subscribers = <<>>
    /\ topics = [b \in Mailboxes |-> {}]
    /\ queue = [b \in Mailboxes |-> <<>>]
    /\ received = [b \in Mailboxes |-> FALSE]
    /\ sent = <<>>
    /\ server = [pc |-> "wait"]
    /\ max_download_id = 1
    /\ downloads = <<>>
    /\ downloads_status = <<>>
    /\ workers = <<>>
    /\ files = [p \in Paths |-> NoFile]
    /\ creates_sent = 0
    /\ ops_sent = 0
    /\ budget = [creates |-> 0, ops |-> publishes, size |-> 0]
    /\ last = NoLast
    /\ bridge = [ends |-> [side \in Sides |-> End],
                 wire |-> [side \in Sides |-> <<>>],
                 link |-> "none",
                 client |-> 1]

InitBridge == BridgeStart(MaxFrames)

\* A thread of the process publishes a message on the broker of its side
BridgePublish(side) ==
    /\ ops_sent < budget.ops
    /\ \E message \in BridgeMessages :
           bridge' = Bridge_send_message(Quiet(bridge), side, message, "local")
    /\ ops_sent' = ops_sent + 1
    /\ BridgeRest

\* start_connection were it to connect again after the connection is lost
BridgeConnect_again ==
    /\ bridge.link \in {"none", "dropped"}
    /\ bridge' = [Quiet(bridge) EXCEPT !.link = "up"]
    /\ UNCHANGED ops_sent
    /\ BridgeRest

\* websockets.connect of start_connection succeeds and the server runs
\* handler for the connection
BridgeConnect ==
    /\ bridge.link = "none"
    /\ bridge' = [Quiet(bridge) EXCEPT !.link = "up"]
    /\ UNCHANGED ops_sent
    /\ BridgeRest

\* producer_handler: a message of input_messages is sent
BridgeProduce(side) ==
    /\ bridge.link = "up"
    /\ bridge.ends[side].input_queue # <<>>
    /\ bridge' = [Quiet(bridge) EXCEPT
                     !.ends[side].input_queue = Tail(@),
                     !.wire[Peer(side)] =
                         Append(@, Head(bridge.ends[side].input_queue))]
    /\ UNCHANGED ops_sent
    /\ BridgeRest

\* consumer_handler: a message of the websocket is put on output_queue and
\* sent is set
BridgeConsume(side) ==
    /\ bridge.link = "up"
    /\ bridge.wire[side] # <<>>
    /\ bridge' = [Quiet(bridge) EXCEPT
                     !.wire[side] = Tail(@),
                     !.ends[side].output_queue =
                         Append(@, Head(bridge.wire[side])),
                     !.ends[side].sent = TRUE]
    /\ UNCHANGED ops_sent
    /\ BridgeRest

\* _check_server_for_messages: sent.wait() has returned or output_messages
\* is running; it yields a message, which is decoded and published
BridgeCheckerMessage(side) ==
    LET end == bridge.ends[side]
    IN  /\ \/ end.pc = "wait" /\ end.sent
           \/ end.pc = "get"
        /\ end.output_queue # <<>>
        /\ bridge' = Bridge_send_message(
                         [Quiet(bridge) EXCEPT
                             !.ends[side].output_queue = Tail(@),
                             !.ends[side].message_received = TRUE,
                             !.ends[side].pc = "get"],
                         side, json_loads(Head(end.output_queue)), "websocket")
        /\ UNCHANGED ops_sent
        /\ BridgeRest

\* get_nowait of output_messages raises queue.Empty
BridgeCheckerEmpty(side) ==
    LET end == bridge.ends[side]
    IN  /\ \/ end.pc = "wait" /\ end.sent
           \/ end.pc = "get"
        /\ end.output_queue = <<>>
        /\ bridge' = [Quiet(bridge) EXCEPT !.ends[side].pc =
                         IF end.pc = "get" /\ end.message_received
                         THEN "clear" ELSE "wait"]
        /\ UNCHANGED ops_sent
        /\ BridgeRest

\* sent.clear(), and output_messages returns
BridgeCheckerClear(side) ==
    /\ bridge.ends[side].pc = "clear"
    /\ bridge' = [Quiet(bridge) EXCEPT !.ends[side].sent = FALSE,
                                       !.ends[side].message_received = FALSE,
                                       !.ends[side].pc = "wait"]
    /\ UNCHANGED ops_sent
    /\ BridgeRest

\* The connection is lost with what was on its way.  The handler of the
\* server returns and websockets.serve goes on listening; start_connection
\* of the client returns and the thread of the client ends.
BridgeDrop ==
    /\ bridge.link = "up"
    /\ bridge' = [Quiet(bridge) EXCEPT !.link = "dropped",
                                       !.wire = [side \in Sides |-> <<>>]]
    /\ UNCHANGED ops_sent
    /\ BridgeRest

\* The client process is started again: a new SocketClientMessageBroker
BridgeNewClient ==
    /\ bridge.link = "dropped"
    /\ bridge.client < MaxClients
    /\ bridge' = [Quiet(bridge) EXCEPT !.link = "none",
                                       !.client = @ + 1,
                                       !.ends["client"] = End]
    /\ UNCHANGED ops_sent
    /\ BridgeRest

\* The thread of _check_server_for_messages of a side
BridgeChecker(side) ==
    \/ BridgeCheckerMessage(side)
    \/ BridgeCheckerEmpty(side)
    \/ BridgeCheckerClear(side)

NextBridge ==
    \/ \E side \in Sides : BridgePublish(side)
    \/ BridgeConnect
    \/ \E side \in Sides : BridgeProduce(side)
    \/ \E side \in Sides : BridgeConsume(side)
    \/ \E side \in Sides : BridgeChecker(side)
    \/ BridgeDrop
    \/ BridgeNewClient

\* The websocket threads and the threads of _check_server_for_messages run
\* when they can; the processes publish, and the connection is made and
\* lost, as it happens.
SpecBridge ==
    /\ InitBridge
    /\ [][NextBridge]_vars
    /\ \A side \in Sides :
           /\ WF_vars(BridgeProduce(side))
           /\ WF_vars(BridgeConsume(side))
           /\ WF_vars(BridgeChecker(side))

\* The server process publishes more messages than a queue of input_size
\* holds, and the client process receives them over a connection that
\* stays.
InitBacklog == BridgeStart(input_size + 1)

NextBacklog ==
    \/ BridgePublish("server")
    \/ BridgeConnect
    \/ BridgeProduce("server")
    \/ BridgeConsume("client")
    \/ BridgeChecker("client")

SpecBacklog == InitBacklog /\ [][NextBacklog]_vars

\* ------------------------------------------------------------- properties
Terminal == {COMPLETED, CANCELED, ERROR}

IsOperation(message, op) ==
    /\ message.action = "DownloadOperation"
    /\ message.download_operation = op

\* The mailboxes of a list that listen to the topic, in the order of the list
Listeners(list, topic) == SelectSeq(list, LAMBDA box : topic \in topics[box])

\* The step was the server handling a message of the given action.
ServerHandled(l, action) == l.who = ServerBox /\ l.msg.action = action

\* No other worker downloads to the file of worker w.
Alone(w) ==
    \A v \in DOMAIN workers :
        v # w => workers[v].download.filepath # workers[w].download.filepath

LegalTransitions ==
    {<<UNSTARTED, IN_PROGRESS>>, <<IN_PROGRESS, PAUSED>>,
     <<IN_PROGRESS, COMPLETED>>, <<IN_PROGRESS, ERROR>>,
     <<IN_PROGRESS, CANCELED>>, <<PAUSED, IN_PROGRESS>>,
     <<PAUSED, CANCELED>>}

\* C1: every change of a worker's status is UNSTARTED -> IN_PROGRESS,
\* IN_PROGRESS -> PAUSED, COMPLETED, ERROR or CANCELED, or PAUSED ->
\* IN_PROGRESS or CANCELED; a status of COMPLETED, CANCELED or ERROR never
\* changes again.
C1_StatusFollowsTable ==
    [][\A w \in DOMAIN workers :
           workers'[w].status # workers[w].status
               => <<workers[w].status, workers'[w].status>> \in LegalTransitions]_vars

\* C2: a CANCEL handled in any status but COMPLETED leaves the status
\* CANCELED, and once the worker is back at rest the partial file is gone; a
\* CANCEL handled in COMPLETED changes nothing and publishes nothing.
C2_CancelCancelsAndDeletes ==
    \A w \in DOMAIN workers :
        LET me == workers[w]
        IN  /\ (last.who = w /\ IsOperation(last.msg, CANCEL))
                   => IF last.status = COMPLETED
                      THEN me.status = COMPLETED /\ sent = <<>>
                      ELSE me.status = CANCELED
            /\ (me.status = CANCELED /\ me.pc \in {"wait", "done"} /\ Alone(w)
                  /\ me.download.filepath \in Paths)
                   => ~files[me.download.filepath].exists

\* C3: a PAUSE is accepted, the status becoming PAUSED, exactly when the
\* status is IN_PROGRESS and the download is pausable; in every other case
\* the status is unchanged and no snapshot is published.
C3_PauseOnlyInProgressAndPausable ==
    \A w \in DOMAIN workers :
        (last.who = w /\ IsOperation(last.msg, PAUSE))
            => IF last.status = IN_PROGRESS /\ workers[w].download.is_pausable
               THEN /\ workers[w].status = PAUSED
                    /\ Len(sent) = 1
                    /\ sent[1].msg.action = "DownloadStatus"
                    /\ sent[1].msg.status = PAUSED
               ELSE /\ workers[w].status = last.status
                    /\ sent = <<>>

\* A PAUSE was handled by a worker that is IN_PROGRESS on a download that is
\* not pausable, and nothing came of it.
C3_Witness ==
    \E w \in DOMAIN workers :
        /\ last.who = w
        /\ IsOperation(last.msg, PAUSE)
        /\ last.status = IN_PROGRESS
        /\ ~workers[w].download.is_pausable
        /\ workers[w].status = IN_PROGRESS
        /\ sent = <<>>

\* The server handles a CreateDownload whose url is the url of a download
\* it tracks.
CreateOfTrackedUrl ==
    /\ ServerHandled(last', "CreateDownload")
    /\ \E id \in DOMAIN downloads : downloads[id].url = last'.msg.url

C5_IdsCountUpFromOne ==
    /\ max_download_id = Len(workers) + 1
    /\ \A k \in DOMAIN workers : workers[k].download.download_id = k
    /\ \A id \in DOMAIN downloads :
           id \in DOMAIN workers /\ downloads[id].download_id = id
    /\ \A id \in DOMAIN downloads_status : id \in DOMAIN downloads

\* Two ids have been allocated and the server tracks the second download.
C5_Witness ==
    /\ Len(workers) >= 2
    /\ 2 \in DOMAIN downloads
    /\ 2 \in DOMAIN downloads_status

C7_TerminalWorkerHasExited ==
    \A w \in DOMAIN workers :
        workers[w].pc = "wait" => workers[w].status \notin Terminal

\* Worker w goes into _start_download in this step.
Starts(w) ==
    /\ Len(workers'[w].stack) > Len(workers[w].stack)
    /\ Top(workers'[w]).kind = "download"

\* C8: a transfer started from PAUSED requests the bytes from
\* downloaded_bytes on and appends them to the file as it is; one started
\* from UNSTARTED truncates the file; when the status becomes COMPLETED the
\* file is size bytes long.
C8_ResumeContinuesTheFile ==
    [][\A w \in DOMAIN workers :
           LET me == workers[w]
               path == me.download.filepath
           IN  /\ (Starts(w) /\ me.status = PAUSED)
                      => /\ Top(workers'[w]).mode = "ab"
                         /\ Top(workers'[w]).off = me.downloaded_bytes
                         /\ files'[path].data = files[path].data
               /\ (Starts(w) /\ me.status = UNSTARTED)
                      => /\ Top(workers'[w]).mode = "wb"
                         /\ files'[path] = EmptyFile
               /\ (/\ workers'[w].status = COMPLETED
                   /\ me.status # COMPLETED
                   /\ Alone(w))
                      => /\ files'[path].exists
                         /\ Len(files'[path].data) = me.download.size]_vars

\* C9: every snapshot a worker publishes has progress = downloaded_bytes /
\* size, and its progress is 1 exactly when its status is COMPLETED.
C9_ProgressIsOneIffCompleted ==
    \A i \in DOMAIN sent :
        LET message == sent[i].msg
        IN  (message.action = "DownloadStatus" /\ message.topic = "downloadserver")
                => /\ message.progress =
                          Divide(message.downloaded_bytes,
                                 workers[message.download_id].download.size)
                   /\ (message.progress = <<1, 1>>) <=> (message.status = COMPLETED)

\* The step publishes a snapshot of download download_id with the status.
Snapshot(download_id, status) ==
    \E i \in DOMAIN sent' :
        /\ sent'[i].msg.action = "DownloadStatus"
        /\ sent'[i].msg.download_id = download_id
        /\ sent'[i].msg.status = status

\* C14: when the HEAD request of the probe fails, the worker leaves its
\* initialisation with status ERROR and the url as filename, having
\* published a DownloadInfo with these values and an ERROR snapshot, and
\* its thread ends without an exception.  (A probe that succeeded leaves
\* the filename from_url computed.)
C14_FailedProbeIsReported ==
    [][\A w \in DOMAIN workers :
           (workers[w].pc = "init" /\ workers'[w].pc # "init")
               => LET me == workers'[w]
                  IN  \/ me.download.filename = FilenameFromUrl(me.download.url)
                      \/ /\ me.status = ERROR
                         /\ me.download.filename = me.download.url
                         /\ Len(sent') = 2
                         /\ sent'[1].msg = DownloadInfoMessage(me.download)
                         /\ Snapshot(me.download.download_id, ERROR)
                         /\ me.pc = "done"]_vars

\* C15: when the loop of a transfer is left otherwise than on a pause or a
\* cancel and downloaded_bytes is not the size, the status is ERROR, an
\* ERROR snapshot is published, and no exception ends the thread.
C15_BrokenTransferIsReported ==
    [][\A w \in DOMAIN workers :
           LET me == workers'[w]
               left == \/ me.pc = "crashed"
                       \/ Len(me.stack) < Len(workers[w].stack)
           IN  (/\ InFrame(workers[w], "download", "loop")
                /\ left
                /\ me.status \notin {PAUSED, CANCELED}
                /\ me.downloaded_bytes # me.download.size)
                   => /\ me.status = ERROR
                      /\ Snapshot(me.download.download_id, ERROR)
                      /\ me.pc # "crashed"]_vars

\* No thread can run: the server and every worker are in received.wait()
\* with the event clear, or have returned from run.  Only a further publish
\* of the client sets an event again.
Quiescent ==
    /\ server.pc = "wait"
    /\ ~received[ServerBox]
    /\ \A w \in DOMAIN workers :
           \/ workers[w].pc = "done"
           \/ workers[w].pc = "wait" /\ ~received[w]

\* C13: on a new server a CreateDownload is given id 1, and once the client
\* has published START for download 1, with the probe successful and the
\* response delivering exactly size bytes, the worker comes to COMPLETED
\* with all size bytes downloaded: when the threads have come to rest after
\* a START, the download is COMPLETED and the server has stored its last
\* snapshot, of progress 1.
C13_StartLeadsToCompleted ==
    (ops_sent >= 1 /\ Quiescent)
        => /\ Len(workers) = 1
           /\ workers[1].download.download_id = 1
           /\ workers[1].status = COMPLETED
           /\ workers[1].downloaded_bytes = workers[1].download.size
           /\ 1 \in DOMAIN downloads_status
           /\ downloads_status[1].status = COMPLETED
           /\ downloads_status[1].progress = <<1, 1>>

\* C12: a message a process publishes on its broker with the topic of the
\* far side, while the connection is up, is in the end published on the
\* broker of the other side, key for key and value for value the same,
\* unless the connection is lost; in both directions.
C12_BridgeRoundTrip ==
    \A side \in Sides : \A m \in BridgeMessages :
        (/\ bridge.link = "up"
         /\ m.topic = FarTopic(side)
         /\ bridge.ends[side].published.msg = m
         /\ bridge.ends[side].published.from = "local")
            ~> (\/ bridge.link # "up"
                \/ /\ bridge.ends[Peer(side)].published.msg = m
                   /\ bridge.ends[Peer(side)].published.from = "websocket")

\* C16: the queues of a socket broker are bounded like a mailbox: neither
\* the queue of messages to send nor the queue of messages received ever
\* holds more than input_size (10) messages.
C16_BridgeQueuesAreBounded ==
    \A side \in Sides :
        /\ Len(bridge.ends[side].input_queue) <= input_size
        /\ Len(bridge.ends[side].output_queue) <= input_size

\* C17: send_message of a socket broker puts the message, encoded, at the
\* end of the queue of messages to send exactly when its topic is the
\* topic of the far side, and hands it to the local subscribers of its
\* topic in either case; only messages with the topic of the far side are
\* ever on their way to the other process.
C17_OnlyFarTopicCrosses ==
    [][\A side \in Sides :
           LET pub == bridge'.ends[side].published
               before == bridge.ends[side].input_queue
           IN  /\ pub # NoPublication
                  => /\ bridge'.ends[side].input_queue =
                            IF pub.msg.topic = FarTopic(side)
                            THEN Append(before, json_dumps(pub.msg))
                            ELSE before
                     /\ pub.to = SelectSeq(LocalSubscribers(side),
                                   LAMBDA box : pub.msg.topic \in LocalTopics(box))
               /\ \A i \in DOMAIN bridge'.wire[Peer(side)] :
                      json_loads(bridge'.wire[Peer(side)][i]).topic
                          = FarTopic(side)]_vars

\* With the connection up, a process has published a message with a topic
\* that is not the far side's: its local subscriber has it and nothing is
\* queued for the websocket.
C17_Witness ==
    \E side \in Sides :
        /\ bridge.link = "up"
        /\ bridge.ends[side].published.from = "local"
        /\ bridge.ends[side].published.msg.topic # FarTopic(side)
        /\ bridge.ends[side].published.to = <<side>>
        /\ bridge.ends[side].input_queue = <<>>
        /\ bridge.wire[Peer(side)] = <<>>

\* A connection of this client process, or of one before it, was lost.
Dropped == bridge.link = "dropped" \/ bridge.client > 1

C21_TerminalOperationsAreInert ==
    [][\A w \in DOMAIN workers :
          (/\ last'.who = w
           /\ last'.msg.action = "DownloadOperation"
           /\ workers[w].status \in Terminal)
              => /\ workers'[w].status = workers[w].status
                 /\ files' = files
                 /\ downloads' = downloads
                 /\ downloads_status' = downloads_status
                 /\ sent' = <<>>]_vars

\* The invocations of _start_download worker w is in.
Transfers(w) ==
    {i \in DOMAIN workers[w].stack : workers[w].stack[i].kind = "download"}

\* C23: a worker never runs two transfers at once: _start_download is never
\* entered while another invocation of it is in progress.
C23_OneTransferAtATime ==
    \A w \in DOMAIN workers : Cardinality(Transfers(w)) <= 1

\* Worker w is at an interval check-in of a transfer, paused by a PAUSE it
\* has handled at this check-in: messages() runs under _update.
PausedAtCheckIn(w) ==
    /\ workers[w].pc = "run"
    /\ Len(workers[w].stack) >= 2
    /\ Top(workers[w]).kind = "messages"
    /\ workers[w].stack[Len(workers[w].stack) - 1].kind = "download"
    /\ workers[w].stack[Len(workers[w].stack) - 1].at = "update"
    /\ workers[w].status = PAUSED

\* C22: once a PAUSE is accepted at an interval check-in, the transfer ends
\* at that check-in.  Until the check-in returns the worker starts no
\* transfer and writes nothing; when it returns, the loop is left and
\* _finish_download has run: the status is PAUSED, nothing was published,
\* and the file is kept with exactly downloaded_bytes bytes.  (A CANCEL
\* handled after the PAUSE takes the pause back and is left out.)
C22_PauseEndsTheTransfer ==
    [][\A w \in DOMAIN workers :
          (/\ PausedAtCheckIn(w)
           /\ workers'[w] # workers[w]
           /\ ~(last'.who = w /\ IsOperation(last'.msg, CANCEL)))
              => /\ workers'[w].status = PAUSED
                 /\ files' = files
                 /\ \/ Len(workers'[w].stack) = Len(workers[w].stack)
                    \/ /\ Len(workers'[w].stack) = Len(workers[w].stack) - 2
                       /\ sent' = <<>>
                       /\ files[workers[w].download.filepath].exists
                       /\ Len(files[workers[w].download.filepath].data)
                              = workers[w].downloaded_bytes]_vars

\* C25: no wake-up is lost: a mailbox whose owner is back in
\* received.wait() with a message in the queue has its event set, so the
\* owner wakes and reads it.
C25_NoLostWakeUp ==
    (server.pc = "wait" /\ queue[ServerBox] # <<>>) => received[ServerBox]

\* Worker w has its file open for writing: it is in _start_download.
Writes(w) == Transfers(w) # {}

\* C24: each worker is the only writer of its file: no two workers have the
\* same filepath open for writing at once, and no two workers have the same
\* download id.
C24_SoleWriterOfItsFile ==
    \A v, w \in DOMAIN workers :
        v # w
            => /\ workers[v].download.download_id # workers[w].download.download_id
               /\ ~(/\ Writes(v)
                    /\ Writes(w)
                    /\ workers[v].download.filepath = workers[w].download.filepath)

\* C26: a snapshot lost to a full mailbox is superseded: the last status
\* the server holds of a download comes to be the final status of its
\* worker.  When the worker's thread has ended and the server has read all
\* of its mailbox and is back in received.wait(), the server holds the
\* worker's final status.
C26_FinalStatusArrives ==
    \A w \in DOMAIN workers :
        (/\ workers[w].pc = "done"
         /\ server.pc = "wait"
         /\ ~received[ServerBox]
         /\ queue[ServerBox] = <<>>)
            => /\ workers[w].download.download_id \in DOMAIN downloads_status
               /\ downloads_status[workers[w].download.download_id].status
                      = workers[w].status

\* C27: on a CreateDownload the server takes the next id and constructs and
\* starts a worker: its mailbox is subscribed and listens to
\* downloadworker{id}, its status is UNSTARTED and its downloaded_bytes 0,
\* and it is at the top of run; downloads and downloads_status get no entry,
\* and the server goes on running.
C27_CreateStartsAWorker ==
    [][ServerHandled(last', "CreateDownload")
          => /\ max_download_id' = max_download_id + 1
             /\ Len(workers') = Len(workers) + 1
             /\ LET w == Len(workers')
                IN  /\ workers'[w].download.download_id = max_download_id
                    /\ workers'[w].download.url = last'.msg.url
                    /\ workers'[w].status = UNSTARTED
                    /\ workers'[w].downloaded_bytes = 0
                    /\ workers'[w].pc = "init"
                    /\ subscribers' = Append(subscribers, w)
                    /\ topics'[w] = {WorkerTopic(max_download_id)}
             /\ downloads' = downloads
             /\ downloads_status' = downloads_status
             /\ server'.pc = "get"]_vars

\* The queue of a mailbox after receive_message(message).
Received(box, message) ==
    IF Len(queue[box]) < input_size THEN Append(queue[box], message) ELSE queue[box]

\* C28: the server handles a DownloadOperation by forwarding alone: it
\* publishes one DownloadOperation of the same id and operation with topic
\* downloadworker{id}, handed to the mailboxes that listen to that topic, to
\* none when the id is of no worker; its maps and its id counter, the
\* workers and the files stay as they were, and it goes on running.
C28_OperationIsForwarded ==
    [][ServerHandled(last', "DownloadOperation")
          => LET id == last'.msg.download_id
                 forwarded ==
                     DownloadOperationMessage(WorkerTopic(id), id,
                                              last'.msg.download_operation)
                 to == Listeners(subscribers, WorkerTopic(id))
             IN  /\ sent' = <<[msg |-> forwarded, to |-> to]>>
                 /\ Len(to) <= 1
                 /\ (id \notin DOMAIN workers => to = <<>>)
                 /\ \A box \in Mailboxes :
                        queue'[box] =
                            IF box = ServerBox
                            THEN Tail(queue[box])
                            ELSE IF \E i \in DOMAIN to : to[i] = box
                            THEN Received(box, forwarded)
                            ELSE queue[box]
                 /\ downloads' = downloads
                 /\ downloads_status' = downloads_status
                 /\ max_download_id' = max_download_id
                 /\ workers' = workers
                 /\ files' = files
                 /\ subscribers' = subscribers
                 /\ topics' = topics
                 /\ server'.pc = "get"]_vars

\* The server has forwarded a PAUSE to the mailbox of the worker of its id.
C28_Witness ==
    /\ ServerHandled(last, "DownloadOperation")
    /\ last.msg.download_operation = PAUSE
    /\ Len(sent) = 1
    /\ sent[1].to = <<last.msg.download_id>>
    /\ sent[1].msg \in {queue[last.msg.download_id][i] :
                            i \in DOMAIN queue[last.msg.download_id]}

\* C29: on a DownloadInfo the server makes downloads[id] the Download of the
\* message's fields, leaves the other downloads alone, publishes the message
\* once with the topic downloadclient and nothing else changed, and goes on
\* running; a DownloadStatus it forwards differs from the one received in
\* the topic alone.
C29_InfoIsStoredAndForwarded ==
    [][/\ ServerHandled(last', "DownloadInfo")
          => LET m == last'.msg
             IN  /\ downloads' =
                        Put(downloads, m.download_id,
                            Download(m.download_id, m.url, m.download_directory,
                                     m.size, m.filename, m.filepath,
                                     m.is_pausable))
                 /\ sent' = <<[msg |-> [m EXCEPT !.topic = "downloadclient"],
                               to |-> Listeners(subscribers, "downloadclient")]>>
                 /\ server'.pc = "get"
       /\ (ServerHandled(last', "DownloadStatus") /\ sent' # <<>>)
          => sent' = <<[msg |-> [last'.msg EXCEPT !.topic = "downloadclient"],
                        to |-> Listeners(subscribers, "downloadclient")]>>]_vars

AtCheckIn(w) ==
    /\ workers[w].pc = "run"
    /\ Len(workers[w].stack) >= 2
    /\ Top(workers[w]).kind = "messages"
    /\ workers[w].stack[Len(workers[w].stack) - 1].kind = "download"
    /\ workers[w].stack[Len(workers[w].stack) - 1].at = "update"

\* C31: during a transfer PAUSE and CANCEL take effect at an interval
\* check-in alone.  A step of the client or of the server changes the
\* status and the call stack of no worker.  A worker in the loop of
\* _start_download with status IN_PROGRESS takes nothing from its mailbox,
\* whatever is queued there, and its status stays IN_PROGRESS until the
\* loop is left for _finish_download.  The status goes from IN_PROGRESS to
\* PAUSED or CANCELED only when the worker handles a PAUSE or a CANCEL at a
\* check-in.
C31_CommandsActAtCheckIns ==
    [][\A w \in DOMAIN workers :
          /\ (\/ last'.who = ServerBox
              \/ creates_sent' # creates_sent
              \/ ops_sent' # ops_sent
              \/ server' # server)
                 => /\ workers'[w].status = workers[w].status
                    /\ workers'[w].stack = workers[w].stack
                    /\ workers'[w].downloaded_bytes = workers[w].downloaded_bytes
          /\ (/\ InFrame(workers[w], "download", "loop")
              /\ workers[w].status = IN_PROGRESS
              /\ workers'[w] # workers[w])
                 => /\ queue'[w] = queue[w]
                    /\ \/ workers'[w].status = IN_PROGRESS
                       \/ /\ workers'[w].status \in {COMPLETED, ERROR}
                          /\ Len(workers'[w].stack) < Len(workers[w].stack)
                       \/ workers'[w].pc = "crashed"
          /\ (/\ workers[w].status = IN_PROGRESS
              /\ workers'[w].status \in {PAUSED, CANCELED})
                 => /\ AtCheckIn(w)
                    /\ last'.who = w
                    /\ \/ IsOperation(last'.msg, PAUSE)
                          /\ workers'[w].status = PAUSED
                       \/ IsOperation(last'.msg, CANCEL)
                          /\ workers'[w].status = CANCELED]_vars

\* A worker has written a chunk with a PAUSE waiting in its mailbox, and is
\* IN_PROGRESS in the loop still.
C31_Witness ==
    \E w \in DOMAIN workers :
        /\ InFrame(workers[w], "download", "loop")
        /\ workers[w].status = IN_PROGRESS
        /\ workers[w].downloaded_bytes >= 1
        /\ \E i \in DOMAIN queue[w] : IsOperation(queue[w][i], PAUSE)

\* C32: a START a worker handles when its status is IN_PROGRESS, COMPLETED,
\* CANCELED or ERROR does nothing: no request is made and no file opened,
\* the status and downloaded_bytes stay as they were and nothing is
\* published; a START handled in UNSTARTED or PAUSED enters _start_download.
C32_StartOnlyFromUnstartedOrPaused ==
    [][\A w \in DOMAIN workers :
          (last'.who = w /\ IsOperation(last'.msg, START))
              => IF workers[w].status \in {UNSTARTED, PAUSED}
                 THEN \/ workers'[w].pc = "crashed"
                      \/ /\ workers'[w].status = IN_PROGRESS
                         /\ Cardinality({i \in DOMAIN workers'[w].stack :
                                workers'[w].stack[i].kind = "download"})
                                = Cardinality(Transfers(w)) + 1
                 ELSE /\ workers'[w].status = workers[w].status
                      /\ workers'[w].downloaded_bytes = workers[w].downloaded_bytes
                      /\ workers'[w].download = workers[w].download
                      /\ workers'[w].pc # "crashed"
                      /\ {i \in DOMAIN workers'[w].stack :
                             workers'[w].stack[i].kind = "download"} = Transfers(w)
                      /\ files' = files
                      /\ sent' = <<>>]_vars

\* A worker whose transfer ended in ERROR has handled a START and is in
\* ERROR still, with no transfer running.
C32_Witness ==
    \E w \in DOMAIN workers :
        /\ last.who = w
        /\ IsOperation(last.msg, START)
        /\ last.status = ERROR
        /\ workers[w].status = ERROR
        /\ Transfers(w) = {}

\* The transfers of worker w that are left in this step.
Ended(w) ==
    Cardinality(Transfers(w))
        - Cardinality({i \in DOMAIN workers'[w].stack :
                           workers'[w].stack[i].kind = "download"})

\* C33: a transfer whose loop ends with no PAUSE or CANCEL accepted and
\* downloaded_bytes = size ends COMPLETED, and one snapshot, of COMPLETED
\* and all the bytes, is published as it ends.  A worker that is in the
\* loop with downloaded_bytes = size handles no further command before it
\* completes: its next step leaves the loop COMPLETED with its mailbox as
\* it was.
C33_FullTransferCompletes ==
    [][\A w \in DOMAIN workers :
          /\ (/\ Ended(w) = 1
              /\ workers'[w].pc # "crashed"
              /\ workers'[w].status \notin {PAUSED, CANCELED}
              /\ workers'[w].downloaded_bytes = workers'[w].download.size)
                 => /\ workers'[w].status = COMPLETED
                    /\ sent' = <<[msg |-> DownloadStatusMessage(
                                              workers[w].download.download_id,
                                              COMPLETED,
                                              workers[w].download.size, <<1, 1>>),
                                  to |-> Listeners(subscribers, "downloadserver")]>>
          /\ (/\ InFrame(workers[w], "download", "loop")
              /\ workers[w].status = IN_PROGRESS
              /\ workers[w].downloaded_bytes = workers[w].download.size
              /\ workers'[w] # workers[w]
              /\ workers'[w].pc # "crashed")
                 => /\ workers'[w].status = COMPLETED
                    /\ Ended(w) = 1
                    /\ queue'[w] = queue[w]]_vars

\* C34: in every snapshot a worker publishes, 0 <= downloaded_bytes <= size
\* and the progress, downloaded_bytes / size, is between 0 and 1, whatever
\* operations it was sent; and no worker comes to send a snapshot of a
\* download of size 0 (the division of _send_download_status then ends its
\* thread, the download resolved and announced).
C34_SnapshotIsWithinTheSize ==
    /\ \A i \in DOMAIN sent :
           LET message == sent[i].msg
           IN  (message.action = "DownloadStatus" /\ message.topic = "downloadserver")
                   => LET size == workers[message.download_id].download.size
                      IN  /\ size # 0
                          /\ 0 <= message.downloaded_bytes
                          /\ message.downloaded_bytes <= size
                          /\ 0 <= message.progress[1]
                          /\ message.progress[1] <= message.progress[2]
    /\ \A w \in DOMAIN workers :
           ~(/\ workers[w].pc = "crashed"
             /\ workers[w].download.filename # ""
             /\ workers[w].download.size = 0)

\* C35: a START that a YoutubeDownloadWorker handles in UNSTARTED or PAUSED
\* sets the pipeline running with the worker's progress hook: the thread
\* goes on, in download_youtube_mp3, or the transfer has ended and the
\* status is PAUSED, CANCELED, COMPLETED or ERROR.
C35_StartRunsThePipeline ==
    [][\A w \in DOMAIN workers :
          (/\ IsYoutube(workers[w].download.url)
           /\ last'.who = w
           /\ IsOperation(last'.msg, START)
           /\ workers[w].status \in {UNSTARTED, PAUSED})
              => /\ workers'[w].pc # "crashed"
                 /\ \/ \E i \in DOMAIN workers'[w].stack :
                           workers'[w].stack[i].kind = "pipeline"
                    \/ workers'[w].status \in {PAUSED, CANCELED, COMPLETED, ERROR}]_vars

\* The step publishes a message of the action for the client, about the id.
Notified(action, id) ==
    \E i \in DOMAIN sent' :
        /\ sent'[i].msg.topic = "downloadclient"
        /\ sent'[i].msg.action = action
        /\ sent'[i].msg.download_id = id

\* C36: the server forwards a DownloadStatus to the client, and stores it,
\* only for an id that is in downloads when the message is handled; an id
\* comes into downloads only in a step that forwards its DownloadInfo to the
\* client and stays there, so the DownloadInfo of an id goes to the client
\* before any DownloadStatus of it; and every id of downloads_status is an
\* id of downloads.
C36_StatusOnlyOfKnownDownloads ==
    [][/\ \A id \in 1..MaxCreates :
              /\ Notified("DownloadStatus", id) => id \in DOMAIN downloads
              /\ (id \in DOMAIN downloads' /\ id \notin DOMAIN downloads)
                     => Notified("DownloadInfo", id)
              /\ (/\ id \in DOMAIN downloads_status'
                  /\ \/ id \notin DOMAIN downloads_status
                     \/ downloads_status'[id] # downloads_status[id])
                     => id \in DOMAIN downloads
       /\ DOMAIN downloads \subseteq DOMAIN downloads'
       /\ DOMAIN downloads_status' \subseteq DOMAIN downloads']_vars

\* The server has handled a DownloadStatus of an id that is not in
\* downloads: nothing is stored and nothing forwarded.
C36_Witness ==
    /\ ServerHandled(last, "DownloadStatus")
    /\ last.msg.download_id \notin DOMAIN downloads
    /\ last.msg.download_id \notin DOMAIN downloads_status
    /\ sent = <<>>

\* The messages between the publication of a side and the publication on the
\* other side: queued to be sent, on the websocket, queued as received.
RECURSIVE InTransit(_, _)
InTransit(b, sides) ==
    IF sides = {}
    THEN 0
    ELSE LET side == CHOOSE s \in sides : TRUE
         IN  Len(b.ends[side].input_queue) + Len(b.wire[side])
                 + Len(b.ends[side].output_queue)
                 + InTransit(b, sides \ {side})

\* C37: between the broker of the server and the broker of the client no
\* message goes round: _check_server_for_messages publishes a message of
\* the websocket to the local subscribers and queues nothing to be sent,
\* the topic of the message being the topic of its own side; and a step
\* adds a message to those in transit only when a thread of a process
\* publishes, one message for one publication.
C37_NoRelayLoop ==
    [][/\ \A side \in Sides :
              LET pub == bridge'.ends[side].published
              IN  pub.from = "websocket"
                      => /\ bridge'.ends[side].input_queue
                                = bridge.ends[side].input_queue
                         /\ pub.msg.topic \in LocalTopics(side)
                         /\ pub.to = <<side>>
       /\ InTransit(bridge', Sides)
              <= InTransit(bridge, Sides) + (ops_sent' - ops_sent)]_vars

\* A message has crossed in each direction: each side has published a
\* message of the websocket, the last of them just now, and nothing is in
\* transit any more.
C37_Witness ==
    \E side \in Sides :
        /\ bridge.ends[side].published.from = "websocket"
        /\ bridge.ends[side].published.to = <<side>>
        /\ ops_sent = MaxFrames
        /\ InTransit(bridge, Sides) = 0

\* A message the server has no branch for.
StrangeToServer(message) ==
    \/ message.action \notin {"CreateDownload", "DownloadOperation",
                              "DownloadInfo", "DownloadStatus"}
    \/ /\ message.action = "DownloadOperation"
       /\ message.download_operation \notin DownloadOperation

\* A message a worker has no branch for.
StrangeToWorker(message) ==
    \/ message.action # "DownloadOperation"
    \/ message.download_operation \notin DownloadOperation

\* C38: the server that handles a message whose action is none of its four,
\* or a DownloadOperation whose operation is none of START, PAUSE and
\* CANCEL, and a worker that handles a message that is no
\* DownloadOperation, or one whose operation is none of the three, take
\* the message from their mailbox and nothing else happens: no id, no
\* download, no status, no worker and no file changes, no mailbox is
\* handed anything, nothing is published, and the thread is in its drain
\* still, at the next message.
C38_StrangeMessagesAreIgnored ==
    [][/\ (last'.who = ServerBox /\ StrangeToServer(last'.msg))
              => /\ server'.pc = "get"
                 /\ queue' = [queue EXCEPT ![ServerBox] = Tail(@)]
                 /\ sent' = <<>>
                 /\ UNCHANGED <<subscribers, topics, received, max_download_id,
                                downloads, downloads_status, workers, files>>
       /\ \A w \in DOMAIN workers :
              (last'.who = w /\ StrangeToWorker(last'.msg))
                  => /\ InFrame(workers'[w], "messages", "get")
                     /\ Top(workers'[w]).message_received
                     /\ Pop(workers'[w].stack)
                            = IF workers[w].pc = "wait"
                              THEN <<>> ELSE Pop(workers[w].stack)
                     /\ workers'[w].status = workers[w].status
                     /\ workers'[w].downloaded_bytes = workers[w].downloaded_bytes
                     /\ workers'[w].download = workers[w].download
                     /\ workers'[w].should_finish = workers[w].should_finish
                     /\ \A v \in DOMAIN workers : v # w => workers'[v] = workers[v]
                     /\ queue' = [queue EXCEPT ![w] = Tail(@)]
                     /\ sent' = <<>>
                     /\ UNCHANGED <<subscribers, topics, received, server,
                                    max_download_id, downloads,
                                    downloads_status, files>>]_vars

\* A worker has taken an operation that is none of the three from its
\* mailbox at the check-in of its transfer: the transfer is as it was, in
\* progress, and the worker is at the next message.
C38_Witness ==
    \E w \in DOMAIN workers :
        /\ last.who = w
        /\ IsOperation(last.msg, "RESUME")
        /\ workers[w].status = IN_PROGRESS
        /\ Transfers(w) # {}
        /\ InFrame(workers[w], "messages", "get")
        /\ sent = <<>>

\* A thread is in receive_message of the mailbox of the server, between
\* put_nowait and received.set().
Receiving == \E w \in DOMAIN workers : workers[w].pc \in {"info", "status"}

\* C39: when the event of the mailbox of the server is set, its owner is at
\* received.wait() and no thread is in receive_message, the queue has a
\* message; and the owner never comes back from a drain that yielded
\* nothing.
C39_SetSignalHasMessages ==
    /\ (/\ received[ServerBox]
        /\ server.pc = "wait"
        /\ ~Receiving)
           => queue[ServerBox] # <<>>
    /\ ~(last.who = ServerBox /\ last.status = "Empty")

\* Mailbox box is handed a message in this step.
Offered(box) ==
    \E i \in DOMAIN sent' : \E j \in DOMAIN sent'[i].to : sent'[i].to[j] = box

\* C11: a mailbox never holds more than input_size (10) messages; a message
\* offered to a mailbox that holds 10 is discarded: the 10 queued messages
\* and the event are as they were, and the publish goes on.
C11_MailboxBound ==
    [][\A box \in Mailboxes :
           /\ Len(queue'[box]) <= input_size
           /\ (Offered(box) /\ Len(queue[box]) = input_size)
                  => /\ queue'[box] = queue[box]
                     /\ received'[box] = received[box]]_vars

\* The drained mailbox holds 10 messages, the last of them another message
\* than the one just offered to it and to no other mailbox.
C11_Witness ==
    /\ Len(queue[ServerBox]) = input_size
    /\ Len(sent) = 1
    /\ sent[1].to = <<ServerBox>>
    /\ queue[ServerBox][input_size] # sent[1].msg

\* C19: a publish never waits: in every state, whatever the mailboxes hold
\* and whether or not they are ever drained, send_message can run to its
\* end.
C19_PublishNeverBlocks ==
    \A message \in MailboxMessages : ENABLED MailboxSend(message)

\* A message was published to both mailboxes while both hold 10 messages,
\* one of them never drained and the other in the middle of a drain, and the
\* next publish can run.
C19_Witness ==
    /\ Len(sent) = 1
    /\ sent[1].to = <<1, ServerBox>>
    /\ Len(queue[1]) = input_size
    /\ Len(queue[ServerBox]) = input_size
    /\ server.pc = "get"
    /\ ENABLED MailboxSend(sent[1].msg)

\* The messages this step hands to mailbox box, in the order of the calls.
OfferedMessages(box) ==
    LET calls == SelectSeq(sent', LAMBDA p :
                     \E j \in DOMAIN p.to : p.to[j] = box)
    IN  [i \in DOMAIN calls |-> calls[i].msg]

\* C20: a mailbox is first in, first out: the owner takes the message at the
\* head, and the messages a step publishes to the mailbox are put behind
\* the ones it holds, in the order they were published (those that find
\* the mailbox full are left out), so that the messages of one publisher
\* are taken in the order that publisher published them.
C20_MailboxIsFifo ==
    [][\A box \in Mailboxes :
           LET taken == last'.who = box
               base == IF taken THEN Tail(queue[box]) ELSE queue[box]
               offered == OfferedMessages(box)
               n == Len(queue'[box]) - Len(base)
           IN  /\ taken => last'.msg = Head(queue[box])
               /\ n \in 0..Len(offered)
               /\ queue'[box] = base \o SubSeq(offered, 1, n)]_vars

\* The owner has taken the head of a mailbox that held three messages, the
\* first two of them different.
C20_Witness ==
    /\ last.who = ServerBox
    /\ Len(queue[ServerBox]) >= 2
    /\ queue[ServerBox][1] # last.msg
    /\ queue[ServerBox][2] = last.msg

====
